---- MODULE Spec2Model ----
(***************************************************************************)
(* A model of the Flowsta SDK's OAuth 2.0 / PKCE engine (FlowstaAuth and   *)
(* the login-button utilities) and of the embeddable-widget lifecycle      *)
(* (FlowstaWidget and EmailVerificationWidget).                            *)
(*                                                                         *)
(* Conventions: 0 stands for JavaScript null / an absent query parameter / *)
(* an absent storage key; positive integers name opaque values (states,    *)
(* verifiers, tokens, users).  Every await of a fetch is a suspension      *)
(* point and therefore the boundary between two actions.                   *)
(***************************************************************************)
EXTENDS Integers, Sequences, FiniteSets, TLC

\* ---------------------------------------------------------------- bounds
\* Number of login attempts (each draws a fresh state and a fresh verifier).
MaxLogins == 2
\* Distinct access tokens the provider may issue.
MaxTokens == 2
\* Distinct user profiles the provider may return.
MaxUsers == 2
\* Longest scope list a configuration requests.
MaxScopes == 2
\* Status checks (and resend requests) in flight at once.
MaxInFlight == 1
\* Interval timers left running without a handle naming them, per kind.
MaxOrphans == 1
\* Auto-hide timeouts pending at once.
MaxTimeouts == 1
\* widgetOptions.resendCooldown, in seconds.
CooldownSeconds == 2
\* Words of a generated recovery phrase.
PhraseLen == 2
\* Positions of the phrase the user is asked to re-enter.
MaxSampled == 2

\* How many children the root of a widget may hold.
MaxRootNodes == 9

\* Calls of apiRequest() on one widget.
MaxCalls == 4

\* fetchSecurityStatus() invocations in progress at once on one dashboard.
MaxFetches == 2

\* Status checks of one polling interval in flight at once (a check may take
\* longer than the interval).
MaxOverlap == 2

\* The period of the polling interval, in seconds (setInterval(..., 5000)).
PollIntervalSeconds == 5

\* The delay of the auto-hide timeout, in seconds (setTimeout(..., 2000)).
HideDelaySeconds == 2

VARIABLES
  \* --- FlowstaAuth (OAuth engine) ---
  ssState,      \* sessionStorage['flowsta_state']
  ssVerifier,   \* sessionStorage['flowsta_code_verifier']
  lsToken,      \* localStorage['flowsta_access_token']
  lsRefresh,    \* localStorage['flowsta_refresh_token']
  lsUser,       \* localStorage['flowsta_user']
  accessToken,  \* FlowstaAuth.accessToken
  user,         \* FlowstaAuth.user
  cb,           \* the handleCallback() invocation: position, locals, outcome
  consumed,     \* history: states whose handleCallback() returned a user
  \* --- shared by both integrations ---
  integration,  \* the package the host page uses: "auth" or "login-button"
  nextId,       \* number of login attempts made so far (source of fresh values)
  pending,      \* history: the state the latest attempt returned, until a
                \* callback step next runs (0 afterwards)
  \* --- @flowsta/login-button utilities ---
  obState,      \* sessionStorage['flowsta_oauth_state']
  obVerifiers,  \* the states s with a key flowsta_code_verifier_<s> stored
  vs,           \* the last validateState() call: argument and return value
  rv,           \* the last retrieveCodeVerifier() call: argument and return value
  validated,    \* history: states for which validateState() returned true
  retrieved,    \* history: states whose verifier retrieveCodeVerifier() returned
  \* --- the authorization URL ---
  config,       \* the OAuthConfig / FlowstaAuthConfig the URL was built for
  url,          \* the URL built (AuthorizationUrlResult.url / window.location.href)
  \* --- EmailVerificationWidget ---
  ew,           \* the instance: its fields and the timers it scheduled
  net,          \* its requests in flight and the position of initialize()
  opt,          \* widgetOptions: mode, autoCheckInterval
  destroyed,    \* history: destroy() has been called
  everVerified, \* history: emailVerified has been true
  lastClick,    \* history: what the latest step did, if it was a click on the
                \* resend button: "disabled", "cooldown", "sent" or "failed"
  lastInit,     \* history: the latest initialize(): the validation answer, and
                \* whether it called render()
  \* --- step-flow widgets ---
  widgetType,   \* which widget the host embeds: 'email-verification',
                \* 'security-dashboard' or, of the step-flow widgets
                \* (the only ones where it matters), 'recovery-phrase' or
                \* 'account-recovery'
  \* --- RecoveryPhraseWidget ---
  rp,           \* the instance
  rpNet,        \* its requests in flight and the position of initialize()
  rpOpt,        \* widgetOptions: autoShow, allowDismiss, onError supplied
  \* --- AccountRecoveryWidget ---
  ar,           \* the instance
  arNet,        \* its requests in flight and the position of initialize()
  arOpt,        \* widgetOptions: email, onCancel supplied, onError supplied,
                \* getAuthToken supplied
  \* --- render() ---
  dom,          \* a widget and the children of its root (shadow root, or the
                \* container itself where no shadow root could be attached)
  \* --- apiRequest() ---
  api,          \* the calls of FlowstaWidget.apiRequest: the call in progress
                \* and how the latest one ended
  \* --- SecurityDashboardWidget ---
  sd,           \* the instance, its option and its requests in flight
  \* --- createFlowstaLoginButton ---
  lb,           \* the button created: its options, button.disabled, the
                \* handler's isLoading, the style, the calls of
                \* buildAuthorizationUrl in progress and window.location.href
  \* --- EmailVerificationWidget, with time ---
  clock         \* seconds since the polling interval last fired, the ages of
                \* the auto-hide timeouts pending, and whether the latest
                \* second fired the polling interval

authVars == <<ssState, ssVerifier, lsToken, lsRefresh, lsUser, accessToken,
              user, cb, consumed>>

buttonVars == <<obState, obVerifiers, vs, rv, validated, retrieved>>

oauthVars == <<authVars, integration, nextId, pending, buttonVars>>

urlVars == <<config, url>>

widgetVars ==
  <<ew, net, opt, destroyed, everVerified, lastClick, lastInit, clock>>

phraseVars == <<widgetType, rp, rpNet, rpOpt>>

recoveryVars == <<widgetType, ar, arNet, arOpt>>

renderVars == <<dom>>

apiVars == <<api>>

dashVars == <<sd>>

clickVars == <<lb>>

\* What the OAuth engine's operations never touch.
outsideOAuth ==
  <<urlVars, widgetVars, phraseVars, recoveryVars, renderVars, apiVars, dashVars, clickVars>>

\* What the operations of each widget never touch.
outsideEmail ==
  <<oauthVars, urlVars, phraseVars, recoveryVars, renderVars, apiVars, dashVars,
    clickVars, clock>>

\* What the timers of the email-verification widget never touch.
outsideTimers ==
  <<oauthVars, urlVars, phraseVars, recoveryVars, renderVars, apiVars, dashVars, clickVars>>

outsidePhrase ==
  <<oauthVars, urlVars, widgetVars, recoveryVars, renderVars, apiVars, dashVars, clickVars>>

outsideRecovery ==
  <<oauthVars, urlVars, widgetVars, phraseVars, renderVars, apiVars, dashVars, clickVars>>

outsideRender ==
  <<oauthVars, urlVars, widgetVars, phraseVars, recoveryVars, apiVars, dashVars, clickVars>>

outsideApi ==
  <<oauthVars, urlVars, widgetVars, phraseVars, recoveryVars, renderVars,
    dashVars, clickVars>>

outsideDash ==
  <<oauthVars, urlVars, widgetVars, phraseVars, recoveryVars, renderVars,
    apiVars, clickVars>>

\* What a click on the login button never touches besides the OAuth engine.
outsideClick ==
  <<urlVars, widgetVars, phraseVars, recoveryVars, renderVars, apiVars, dashVars>>

vars ==
  <<oauthVars, urlVars, widgetVars, phraseVars, recoveryVars, renderVars, apiVars,
    dashVars, clickVars>>

\* ------------------------------------------------------- FlowstaAuth engine

\* generateRandomString(32) / generatePKCEPair(): the secure random source never
\* repeats a value, so the n-th attempt draws the value n.
generateRandomString(n) == n + 1

\* A handleCallback() invocation that has not been made yet.  error, desc, code
\* and state are the query parameters of window.location.search; verifier, token
\* and refresh are the locals codeVerifier, access_token and refresh_token; sent
\* counts the fetches issued; tokenKind and userKind are the answers they got.
\* storedAtStart and wasConsumed are history: the
\* stored state when the call began, whether the callback's state had already
\* completed a login, and whether this is the first callback after the login
\* that returned this state.
CbIdle ==
  [pc |-> "idle", error |-> 0, desc |-> 0, code |-> 0, state |-> 0,
   verifier |-> 0, token |-> 0, refresh |-> 0, sent |-> 0,
   tokenKind |-> "none", userKind |-> "none",
   outcome |-> "none", message |-> "none",
   storedAtStart |-> 0, wasConsumed |-> FALSE, first |-> FALSE]

\* FlowstaAuth constructor: accessToken = null, user = null, nothing stored.
InitAuth ==
  /\ ssState = 0 /\ ssVerifier = 0
  /\ lsToken = 0 /\ lsRefresh = 0 /\ lsUser = 0
  /\ accessToken = 0 /\ user = 0
  /\ cb = CbIdle
  /\ consumed = {}

\* FlowstaAuth.login(): store the verifier and the state under their fixed keys.
Login ==
  /\ integration = "auth"
  /\ nextId < MaxLogins
  /\ nextId' = nextId + 1
  /\ ssVerifier' = generateRandomString(nextId)
  /\ ssState' = generateRandomString(nextId)
  /\ pending' = generateRandomString(nextId)
  /\ UNCHANGED <<lsToken, lsRefresh, lsUser, accessToken, user, cb, consumed>>
  /\ UNCHANGED <<integration, buttonVars>>
  /\ UNCHANGED outsideOAuth

\* handleCallback line 171: if (!state || state !== storedState).
StateInvalid(state, storedState) == state = 0 \/ state # storedState

\* Mutant of Validate: the state comparison is left out.
Validate_SkipsStateCheck(error, code, state, storedState, codeVerifier) ==
  IF error # 0 THEN "OAuthDenied"
  ELSE IF code = 0 THEN "MissingAuthorizationCode"
  ELSE IF codeVerifier = 0 THEN "MissingPKCEVerifier"
  ELSE "pass"

\* Mutant of Validate: the state is checked first.
Validate_StateFirst(error, code, state, storedState, codeVerifier) ==
  IF StateInvalid(state, storedState) THEN "CSRFValidationFailed"
  ELSE IF error # 0 THEN "OAuthDenied"
  ELSE IF code = 0 THEN "MissingAuthorizationCode"
  ELSE IF codeVerifier = 0 THEN "MissingPKCEVerifier"
  ELSE "pass"

\* handleCallback lines 155-179: the checks before the first fetch, in order; the
\* result is the error thrown, or "pass".
Validate(error, code, state, storedState, codeVerifier) ==
  IF error # 0 THEN "OAuthDenied"
  ELSE IF code = 0 THEN "MissingAuthorizationCode"
  ELSE IF StateInvalid(state, storedState) THEN "CSRFValidationFailed"
  ELSE IF codeVerifier = 0 THEN "MissingPKCEVerifier"
  ELSE "pass"

\* The message of the Error thrown by a failed check.
ValidationMessage(outcome, desc) ==
  CASE outcome = "OAuthDenied" ->
         IF desc # 0 THEN "error_description" ELSE "error"
    [] outcome = "MissingAuthorizationCode" -> "No authorization code received"
    [] outcome = "CSRFValidationFailed" ->
         "Invalid state parameter - possible CSRF attack"
    [] outcome = "MissingPKCEVerifier" -> "Missing PKCE code verifier"
    [] OTHER -> "none"

\* handleCallback up to its first await: read the query parameters, validate, and
\* either throw or send the token request (the verifier is read before the fetch).
\* One invocation runs at a time: the redirect page calls it once per load.
HandleCallbackStart(error, desc, code, state) ==
  /\ integration = "auth"
  /\ cb.pc \in {"idle", "done"}
  /\ LET outcome == Validate(error, code, state, ssState, ssVerifier)
         call == [CbIdle EXCEPT !.error = error, !.desc = desc, !.code = code,
                                !.state = state, !.storedAtStart = ssState,
                                !.wasConsumed = (state \in consumed),
                                !.first = (state # 0 /\ state = pending)]
     IN  cb' = IF outcome = "pass"
               THEN [call EXCEPT !.pc = "exchanging", !.verifier = ssVerifier,
                                 !.sent = 1]
               ELSE [call EXCEPT !.pc = "done", !.outcome = outcome,
                                 !.message = ValidationMessage(outcome, desc)]
  /\ pending' = 0
  /\ UNCHANGED <<ssState, ssVerifier, lsToken, lsRefresh, lsUser, accessToken,
                 user, consumed>>
  /\ UNCHANGED <<integration, nextId, buttonVars>>
  /\ UNCHANGED outsideOAuth

\* Mutant of CleanUpPKCE: only the verifier is removed.
CleanUpPKCE_KeepsState(verifier, state) == <<0, state>>

\* handleCallback lines 201-203: sessionStorage.removeItem of both fixed keys.
\* The pair <<flowsta_code_verifier, flowsta_state>> after the clean-up.
CleanUpPKCE(verifier, state) == <<0, 0>>

\* The token request is answered: kind is "ok" (2xx), "error" (non-2xx) or
\* "reject" (fetch rejected: no response).  Non-2xx throws before the clean-up.
TokenResponse(kind, tok, withRefresh, hasDesc) ==
  /\ cb.pc = "exchanging"
  /\ IF kind = "ok"
     THEN /\ LET cleaned == CleanUpPKCE(ssVerifier, ssState)
             IN  ssVerifier' = cleaned[1] /\ ssState' = cleaned[2]
          /\ cb' = [cb EXCEPT !.pc = "fetching", !.token = tok,
                              !.tokenKind = kind,
                              !.refresh = IF withRefresh THEN tok ELSE 0,
                              !.sent = 2]
     ELSE /\ cb' = [cb EXCEPT !.pc = "done", !.tokenKind = kind,
                      !.outcome = IF kind = "error" THEN "TokenExchangeFailed"
                                  ELSE "FetchRejected",
                      !.message = IF kind = "reject" THEN "fetch failed"
                                  ELSE IF hasDesc THEN "error_description"
                                  ELSE "Token exchange failed"]
          /\ UNCHANGED <<ssVerifier, ssState>>
  /\ pending' = 0
  /\ UNCHANGED <<lsToken, lsRefresh, lsUser, accessToken, user, consumed>>
  /\ UNCHANGED <<integration, nextId, buttonVars>>
  /\ UNCHANGED outsideOAuth

\* handleCallback lines 216-231: the session written once the profile is known:
\* <<accessToken, user, flowsta_access_token, flowsta_user, flowsta_refresh_token>>.
\* The refresh token is written only when the response carried one.
StoreSession(tok, refresh, uid, oldRefresh) ==
  <<tok, uid, tok, uid, IF refresh # 0 THEN refresh ELSE oldRefresh>>

\* Mutant of SessionAfterUserInfo: the session is written before response.ok is
\* looked at.
SessionAfterUserInfo_WritesFirst(kind, current, tok, refresh, uid) ==
  StoreSession(tok, refresh, uid, current[5])

\* handleCallback lines 210-231: a non-2xx (or missing) user-info answer throws
\* before anything is written; `current` is the session as it stands.
SessionAfterUserInfo(kind, current, tok, refresh, uid) ==
  IF kind = "ok" THEN StoreSession(tok, refresh, uid, current[5]) ELSE current

\* The user-info request is answered.
UserInfoResponse(kind, uid) ==
  /\ cb.pc = "fetching"
  /\ LET session == SessionAfterUserInfo(kind,
                      <<accessToken, user, lsToken, lsUser, lsRefresh>>,
                      cb.token, cb.refresh, uid)
     IN  /\ accessToken' = session[1] /\ user' = session[2]
         /\ lsToken' = session[3] /\ lsUser' = session[4]
         /\ lsRefresh' = session[5]
  /\ IF kind = "ok"
     THEN /\ cb' = [cb EXCEPT !.pc = "done", !.userKind = kind, !.outcome = "ok"]
          /\ consumed' = consumed \cup {cb.state}
     ELSE /\ cb' = [cb EXCEPT !.pc = "done", !.userKind = kind,
                      !.outcome = IF kind = "error" THEN "UserInfoFetchFailed"
                                  ELSE "FetchRejected",
                      !.message = IF kind = "error"
                                  THEN "Failed to fetch user info"
                                  ELSE "fetch failed"]
          /\ UNCHANGED consumed
  /\ pending' = 0
  /\ UNCHANGED <<ssState, ssVerifier>>
  /\ UNCHANGED <<integration, nextId, buttonVars>>
  /\ UNCHANGED outsideOAuth

\* Mutant of Logout: the refresh token is left in storage.
Logout_KeepsRefreshToken ==
  /\ integration = "auth"
  /\ accessToken' = 0 /\ user' = 0
  /\ lsToken' = 0 /\ lsUser' = 0
  /\ UNCHANGED <<lsRefresh, ssState, ssVerifier, cb, consumed>>
  /\ UNCHANGED <<integration, nextId, pending, buttonVars>>
  /\ UNCHANGED outsideOAuth

\* FlowstaAuth.logout().
Logout ==
  /\ integration = "auth"
  /\ accessToken' = 0 /\ user' = 0
  /\ lsToken' = 0 /\ lsUser' = 0 /\ lsRefresh' = 0
  /\ UNCHANGED <<ssState, ssVerifier, cb, consumed>>
  /\ UNCHANGED <<integration, nextId, pending, buttonVars>>
  /\ UNCHANGED outsideOAuth

\* new FlowstaAuth(config) on a page load: the fields start null and
\* restoreSession() reads the token and the user back when both are stored.
Construct ==
  /\ integration = "auth"
  /\ cb.pc \in {"idle", "done"}
  /\ IF lsToken # 0 /\ lsUser # 0
     THEN accessToken' = lsToken /\ user' = lsUser
     ELSE accessToken' = 0 /\ user' = 0
  /\ UNCHANGED <<ssState, ssVerifier, lsToken, lsRefresh, lsUser, cb, consumed>>
  /\ UNCHANGED <<integration, nextId, pending, buttonVars>>
  /\ UNCHANGED outsideOAuth

\* FlowstaAuth.isAuthenticated().
isAuthenticated == accessToken # 0 /\ user # 0

\* Callback states the redirect may carry: absent, any issued or issuable state,
\* and one value no login ever issued.
CallbackStates == 0 .. (MaxLogins + 1)

ResponseKinds == {"ok", "error", "reject"}

NextAuth ==
  \/ Login
  \/ \E error \in 0 .. 1, desc \in 0 .. 1, code \in 0 .. 1, state \in CallbackStates :
       /\ (error = 0 => desc = 0)
       /\ HandleCallbackStart(error, desc, code, state)
  \/ \E kind \in ResponseKinds, tok \in 1 .. MaxTokens, withRefresh \in BOOLEAN,
        hasDesc \in BOOLEAN :
       /\ (kind # "ok" => tok = 1 /\ ~withRefresh)
       /\ (kind # "error" => ~hasDesc)
       /\ TokenResponse(kind, tok, withRefresh, hasDesc)
  \/ \E kind \in ResponseKinds, uid \in 1 .. MaxUsers :
       /\ (kind # "ok" => uid = 1)
       /\ UserInfoResponse(kind, uid)
  \/ Logout
  \/ Construct

\* ------------------------------------------- @flowsta/login-button utilities

\* No utility has been called.
NoCall == [called |-> FALSE, arg |-> 0, ret |-> 0, first |-> FALSE,
           replay |-> FALSE]

InitButton ==
  /\ obState = 0
  /\ obVerifiers = {}
  /\ vs = NoCall
  /\ rv = NoCall
  /\ validated = {}
  /\ retrieved = {}

\* generateCodeVerifier() for the attempt that drew `state`: a fresh value, never
\* null.
VerifierOf(state) == state

\* buildAuthorizationUrl(config): draw a verifier and a state, then
\* storeCodeVerifier(verifier, state) and storeState(state).
buildAuthorizationUrl ==
  /\ integration = "login-button"
  /\ nextId < MaxLogins
  /\ nextId' = nextId + 1
  /\ LET state == generateRandomString(nextId)
     IN  /\ obVerifiers' = obVerifiers \cup {state}
         /\ obState' = state
         /\ pending' = state
  /\ UNCHANGED <<vs, rv, validated, retrieved>>
  /\ UNCHANGED <<authVars, integration>>
  /\ UNCHANGED outsideOAuth

\* retrieveState(): the stored state, removed from the store when there is one.
\* The pair <<return value, store afterwards>>.
retrieveState(stored) == <<stored, 0>>

\* validateState(returnedState): storedState !== null && storedState === returnedState.
validateState(returnedState) ==
  /\ integration = "login-button"
  /\ LET r == retrieveState(obState)
         ok == r[1] # 0 /\ r[1] = returnedState
     IN  /\ obState' = r[2]
         /\ vs' = [called |-> TRUE, arg |-> returnedState,
                   ret |-> IF ok THEN 1 ELSE 0,
                   first |-> (returnedState # 0 /\ returnedState = pending),
                   replay |-> (returnedState \in validated)]
         /\ validated' = IF ok THEN validated \cup {returnedState} ELSE validated
  /\ pending' = 0
  /\ UNCHANGED <<obVerifiers, rv, retrieved>>
  /\ UNCHANGED <<authVars, integration, nextId>>
  /\ UNCHANGED outsideOAuth

\* retrieveCodeVerifier(state): the verifier stored for `state`, removed when
\* there is one; null otherwise.
retrieveCodeVerifier(state) ==
  /\ integration = "login-button"
  /\ rv' = [called |-> TRUE, arg |-> state,
            ret |-> IF state \in obVerifiers THEN VerifierOf(state) ELSE 0,
            first |-> FALSE, replay |-> (state \in retrieved)]
  /\ obVerifiers' = obVerifiers \ {state}
  /\ retrieved' = IF state \in obVerifiers THEN retrieved \cup {state}
                  ELSE retrieved
  /\ UNCHANGED <<obState, vs, validated>>
  /\ UNCHANGED <<authVars, integration, nextId, pending>>
  /\ UNCHANGED outsideOAuth

NextButton ==
  \/ buildAuthorizationUrl
  \/ \E returnedState \in CallbackStates : validateState(returnedState)
  \/ \E state \in CallbackStates : retrieveCodeVerifier(state)

\* ------------------------------------ @flowsta/login-button: the button
\* createFlowstaLoginButton(options): the button, enabled unless the option
\* says otherwise, and the click handler's isLoading = false.  onClick and
\* onError are the options: a callback is supplied or not.  dimmed is the style
\* (opacity 0.6 and cursor not-allowed).  building counts the calls of
\* buildAuthorizationUrl awaited; href is the state parameter of the URL
\* window.location.href was set to (0: never set).  invoked are the calls the
\* latest step made, in order, and reported is the error code the latest
\* onError was given.
createFlowstaLoginButton(disabled, onClick, onError) ==
  [optDisabled |-> disabled, onClick |-> onClick, onError |-> onError,
   disabled |-> disabled, isLoading |-> FALSE, dimmed |-> disabled,
   building |-> 0, href |-> 0, invoked |-> <<>>, reported |-> "none"]

\* Mutant of clickIgnored: only the disabled attribute is looked at.
clickIgnored_DisabledOnly(b) == b.disabled

\* The click handler's first line: if (button.disabled || isLoading) return.
clickIgnored(b) == b.disabled \/ b.isLoading

\* The click handler's catch block: isLoading = false, the style of the
\* disabled option restored, onError (where supplied) called with
\* 'authorization_failed'.
clickFailed(b) ==
  LET b1 == [b EXCEPT !.isLoading = FALSE, !.dimmed = b.optDisabled]
  IN  IF b.onError
      THEN [b1 EXCEPT !.invoked = Append(@, "onError"),
                      !.reported = "authorization_failed"]
      ELSE b1

\* A click on the button: the handler up to its await.  onClick, where
\* supplied, is called first and may throw; then buildAuthorizationUrl is
\* called.
ButtonClick(onClickThrows) ==
  /\ integration = "login-button"
  /\ onClickThrows => lb.onClick
  /\ LET b == [lb EXCEPT !.invoked = <<>>, !.reported = "none"]
         b1 == [b EXCEPT !.isLoading = TRUE, !.dimmed = TRUE]
         b2 == IF b.onClick THEN [b1 EXCEPT !.invoked = Append(@, "onClick")]
               ELSE b1
     IN  lb' = IF clickIgnored(lb) THEN b
               ELSE IF onClickThrows THEN clickFailed(b2)
               ELSE [b2 EXCEPT !.invoked = Append(@, "buildAuthorizationUrl"),
                               !.building = @ + 1]
  /\ UNCHANGED <<oauthVars, outsideClick>>

\* buildAuthorizationUrl resolves: the verifier and the state are stored and
\* the handler sets window.location.href; or it rejects (no Web Crypto, no
\* sessionStorage) before anything is stored, and the catch block runs.
ButtonBuildAnswer(ok) ==
  /\ integration = "login-button"
  /\ lb.building > 0
  /\ ok => nextId < MaxLogins
  /\ LET b == [lb EXCEPT !.invoked = <<>>, !.reported = "none",
                         !.building = @ - 1]
         state == generateRandomString(nextId)
     IN  IF ok
         THEN /\ lb' = [b EXCEPT !.href = state]
              /\ nextId' = nextId + 1
              /\ obVerifiers' = obVerifiers \cup {state}
              /\ obState' = state
              /\ pending' = state
         ELSE /\ lb' = clickFailed(b)
              /\ UNCHANGED <<nextId, obVerifiers, obState, pending>>
  /\ UNCHANGED <<vs, rv, validated, retrieved>>
  /\ UNCHANGED <<authVars, integration, outsideClick>>

\* The host page sets button.disabled on the element it was returned.
ButtonSetDisabled(value) ==
  /\ integration = "login-button"
  /\ lb.disabled # value
  /\ lb' = [lb EXCEPT !.disabled = value, !.invoked = <<>>, !.reported = "none"]
  /\ UNCHANGED <<oauthVars, outsideClick>>

\* The page is loaded again after the redirect and creates its button anew;
\* sessionStorage is kept.
ButtonReload ==
  /\ integration = "login-button"
  /\ lb.href # 0
  /\ lb' = createFlowstaLoginButton(lb.optDisabled, lb.onClick, lb.onError)
  /\ UNCHANGED <<oauthVars, outsideClick>>

NextClick ==
  \/ \E onClickThrows \in BOOLEAN : ButtonClick(onClickThrows)
  \/ \E ok \in BOOLEAN : ButtonBuildAnswer(ok)
  \/ \E value \in BOOLEAN : ButtonSetDisabled(value)
  \/ ButtonReload

\* ------------------------------------------------- the authorization URL
\* Strings are sequences of one-character strings, so that encoding is computed
\* character by character.

\* ASCII letters and digits.
AlphaNumeric ==
  {"A", "B", "C", "D", "E", "F", "G", "H", "I", "J", "K", "L", "M", "N",
  "O", "P", "Q", "R", "S", "T", "U", "V", "W", "X", "Y", "Z", "a", "b", "c",
  "d", "e", "f", "g", "h", "i", "j", "k", "l", "m", "n", "o", "p", "q", "r",
  "s", "t", "u", "v", "w", "x", "y", "z", "0", "1", "2", "3", "4", "5", "6",
  "7", "8", "9"}

\* The code points of the other characters the configurations use.
CodePoint ==
  [c \in {" ", ":", "/", "?", "=", "&", "+", "%", "~", "*", "-", ".", "_"} |->
     CASE c = " " -> 32 [] c = ":" -> 58 [] c = "/" -> 47 [] c = "?" -> 63
       [] c = "=" -> 61 [] c = "&" -> 38 [] c = "+" -> 43 [] c = "%" -> 37
       [] c = "~" -> 126 [] c = "*" -> 42 [] c = "-" -> 45 [] c = "." -> 46
       [] c = "_" -> 95]

HexDigits ==
  <<"0", "1", "2", "3", "4", "5", "6", "7", "8", "9", "A", "B", "C", "D", "E", "F">>

\* %XX for a code point below 256.
PercentEncode(n) == <<"%", HexDigits[(n \div 16) + 1], HexDigits[(n % 16) + 1]>>

\* Mutant of FormUrlEncodeChar: the space is percent-encoded (as
\* encodeURIComponent does) instead of written as "+".
FormUrlEncodeChar_SpaceAsPercent20(c) ==
  IF c \in AlphaNumeric \/ c \in {"*", "-", ".", "_"}
  THEN <<c>>
  ELSE PercentEncode(CodePoint[c])

\* URLSearchParams.toString() (the application/x-www-form-urlencoded serializer)
\* on one character: letters, digits and * - . _ are kept, the space becomes "+",
\* everything else is percent-encoded.
FormUrlEncodeChar(c) ==
  IF c = " " THEN <<"+">>
  ELSE IF c \in AlphaNumeric \/ c \in {"*", "-", ".", "_"}
  THEN <<c>>
  ELSE PercentEncode(CodePoint[c])

RECURSIVE FormUrlEncode(_)
FormUrlEncode(s) ==
  IF s = <<>> THEN <<>>
  ELSE FormUrlEncodeChar(Head(s)) \o FormUrlEncode(Tail(s))

\* Array.prototype.join(sep) on an array of strings.
RECURSIVE Join(_, _)
Join(strs, sep) ==
  IF strs = <<>> THEN <<>>
  ELSE IF Len(strs) = 1 THEN strs[1]
  ELSE strs[1] \o sep \o Join(Tail(strs), sep)

\* URLSearchParams.toString(): name=value pairs in insertion order, joined by "&".
RECURSIVE SerializeParams(_)
SerializeParams(pairs) ==
  IF pairs = <<>> THEN <<>>
  ELSE FormUrlEncode(pairs[1][1]) \o <<"=">> \o FormUrlEncode(pairs[1][2])
       \o (IF Len(pairs) = 1 THEN <<>> ELSE <<"&">> \o SerializeParams(Tail(pairs)))

\* The parameter names and fixed values of the authorization request.
P_client_id ==
  <<"c", "l", "i", "e", "n", "t", "_", "i", "d">>
P_redirect_uri ==
  <<"r", "e", "d", "i", "r", "e", "c", "t", "_", "u", "r", "i">>
P_response_type ==
  <<"r", "e", "s", "p", "o", "n", "s", "e", "_", "t", "y", "p", "e">>
P_scope ==
  <<"s", "c", "o", "p", "e">>
P_state ==
  <<"s", "t", "a", "t", "e">>
P_code_challenge ==
  <<"c", "o", "d", "e", "_", "c", "h", "a", "l", "l", "e", "n", "g", "e">>
P_code_challenge_method ==
  <<"c", "o", "d", "e", "_", "c", "h", "a", "l", "l", "e", "n", "g", "e",
  "_", "m", "e", "t", "h", "o", "d">>
V_code ==
  <<"c", "o", "d", "e">>
V_S256 ==
  <<"S", "2", "5", "6">>
\* `${loginUrl}/login?${params}`.
LoginPath ==
  <<"/", "l", "o", "g", "i", "n", "?">>
\* config.loginUrl || 'https://login.flowsta.com'.
DefaultLoginUrl ==
  <<"h", "t", "t", "p", "s", ":", "/", "/", "l", "o", "g", "i", "n", ".",
  "f", "l", "o", "w", "s", "t", "a", ".", "c", "o", "m">>

\* buildAuthorizationUrl lines 121-144 (and FlowstaAuth.login lines 134-144, which
\* builds the same parameters): the URL for a configuration, a state and a
\* challenge.  An absent loginUrl is the empty sequence.
AuthorizationUrl(cfg, state, challenge) ==
  (IF cfg.loginUrl = <<>> THEN DefaultLoginUrl ELSE cfg.loginUrl)
  \o LoginPath
  \o SerializeParams(<<
       <<P_client_id, cfg.clientId>>,
       <<P_redirect_uri, cfg.redirectUri>>,
       <<P_response_type, V_code>>,
       <<P_scope, Join(cfg.scopes, <<" ">>)>>,
       <<P_state, state>>,
       <<P_code_challenge, challenge>>,
       <<P_code_challenge_method, V_S256>> >>)

\* The strings the configurations are built from.
Str_abc ==
  <<"a", "b", "c">>
Str_my_app ==
  <<"m", "y", " ", "a", "p", "p">>
Str_a_plus_b ==
  <<"a", "+", "b">>
Str_x_cb ==
  <<"h", "t", "t", "p", "s", ":", "/", "/", "x", "/", "c", "b">>
Str_cb_query ==
  <<"h", "t", "t", "p", "s", ":", "/", "/", "x", "/", "c", "b", "?", "n",
  "e", "x", "t", "=", "/", "a", " ", "b">>
Str_openid ==
  <<"o", "p", "e", "n", "i", "d">>
Str_email ==
  <<"e", "m", "a", "i", "l">>
Str_profile ==
  <<"p", "r", "o", "f", "i", "l", "e">>
Str_login_override ==
  <<"h", "t", "t", "p", "s", ":", "/", "/", "l", ".", "t", "e", "s", "t">>
Str_state ==
  <<"s", "t", "-", "1", "_", "a">>
Str_challenge ==
  <<"E", "9", "M", "e", "l", "h", "o", "a", "2", "O", "w", "v", "F", "r",
  "E", "M", "T", "J", "g", "u", "C", "H", "a", "o", "e", "K", "1", "t", "8",
  "U", "R", "W", "b", "u", "G", "J", "S", "s", "t", "w", "-", "c", "M">>

\* Sequences of scope names of length 1 .. n.
RECURSIVE ScopeLists(_)
ScopeLists(n) ==
  IF n = 0 THEN {}
  ELSE LET shorter == ScopeLists(n - 1)
       IN  {<<s>> : s \in {Str_openid, Str_email, Str_profile}}
           \cup shorter
           \cup {Append(l, s) : l \in shorter, s \in {Str_openid, Str_email, Str_profile}}

\* OAuthConfig values (clientId, redirectUri, non-empty scopes, optional loginUrl).
Configs ==
  [clientId : {Str_abc, Str_my_app, Str_a_plus_b},
   redirectUri : {Str_x_cb, Str_cb_query},
   scopes : ScopeLists(MaxScopes),
   loginUrl : {<<>>, Str_login_override}]

\* The configuration of the end-to-end scenario.
ScenarioConfig ==
  [clientId |-> Str_abc, redirectUri |-> Str_x_cb,
   scopes |-> <<Str_openid, Str_email>>, loginUrl |-> <<>>]

\* No URL built yet, for the configuration cfg.
InitUrl(cfg) ==
  /\ config = cfg
  /\ url = <<>>

\* buildAuthorizationUrl(config): the url field of the result.
buildAuthorizationUrl_url ==
  /\ integration = "login-button"
  /\ url = <<>>
  /\ url' = AuthorizationUrl(config, Str_state, Str_challenge)
  /\ UNCHANGED <<config, oauthVars, widgetVars, phraseVars, recoveryVars, renderVars,
               apiVars, dashVars, clickVars>>

\* FlowstaAuth.login(): the value assigned to window.location.href.
login_href ==
  /\ integration = "auth"
  /\ url = <<>>
  /\ url' = AuthorizationUrl(config, Str_state, Str_challenge)
  /\ UNCHANGED <<config, oauthVars, widgetVars, phraseVars, recoveryVars, renderVars,
               apiVars, dashVars, clickVars>>

NextUrl ==
  \/ buildAuthorizationUrl_url
  \/ login_href

\* ------------------------------------------- widgets: EmailVerificationWidget
\* FlowstaWidget (the base class) and EmailVerificationWidget.  The record ew
\* holds the instance's fields and the timers it has scheduled; every operator
\* below maps the record before a method to the record after it.

\* The instance after construction: state 'initializing', hidden, no timers, and
\* nothing rendered (resendButton is null).  invoked is the set of host callbacks
\* the latest step called, emitted the events it emitted on the event bus.
NewWidget ==
  [state |-> "initializing", isVisible |-> FALSE, emailVerified |-> FALSE,
   resendCooldown |-> 0, resendTimer |-> FALSE,
   verificationCheckInterval |-> FALSE,
   buttonExists |-> FALSE, buttonAttached |-> FALSE, buttonDisabled |-> FALSE,
   pollOrphans |-> 0, cooldownOrphans |-> 0, hideTimeouts |-> 0,
   invoked |-> {}, emitted |-> <<>>]

\* No request in flight; initialize() not called.  The stale fields count the
\* requests in flight that were sent before destroy().
NoRequests ==
  [initPc |-> "idle", statusChecks |-> 0, resends |-> 0,
   staleInit |-> FALSE, staleStatus |-> 0, staleResends |-> 0]

\* One of n requests in flight is answered, stale of them sent before destroy():
\* how many of the remaining ones were.
StaleLeft(stale, n) == IF stale < n THEN stale ELSE n - 1

\* FlowstaWidget.emitEvent.
emitEvent(w, eventName) == [w EXCEPT !.emitted = Append(@, eventName)]

\* FlowstaWidget.setState: any state may follow any other; a state-change event
\* is emitted.
setState(w, newState) == emitEvent([w EXCEPT !.state = newState], "state-change")

\* FlowstaWidget.show.
show(w) ==
  IF w.isVisible THEN w
  ELSE emitEvent(setState([w EXCEPT !.isVisible = TRUE], "ready"), "show")

\* FlowstaWidget.hide.
hide(w) ==
  IF ~w.isVisible THEN w ELSE emitEvent([w EXCEPT !.isVisible = FALSE], "hide")

\* handleError, had it changed the state without emitting the error event.
handleError_NoEvent(w) == setState(w, "error")

\* FlowstaWidget.handleError: the state becomes 'error' and the error event is
\* emitted.  The host's onError callback is not called here.
handleError(w) == emitEvent(setState(w, "error"), "error")

\* EmailVerificationWidget.stopVerificationPolling: clears the interval the handle
\* names, if any.
stopVerificationPolling(w) == [w EXCEPT !.verificationCheckInterval = FALSE]

\* EmailVerificationWidget.startVerificationPolling: a new interval replaces the
\* handle; an interval the handle named before keeps running unreferenced.
startVerificationPolling(w) ==
  [w EXCEPT !.pollOrphans = IF w.verificationCheckInterval THEN @ + 1 ELSE @,
            !.verificationCheckInterval = TRUE]

\* EmailVerificationWidget.updateResendButton.
updateResendButton(w) ==
  IF ~w.buttonExists THEN w
  ELSE [w EXCEPT !.buttonDisabled = (w.resendCooldown > 0)]

\* EmailVerificationWidget.startResendCooldown.
startResendCooldown(w, seconds) ==
  LET w1 == updateResendButton([w EXCEPT !.resendCooldown = seconds])
  IN  [w1 EXCEPT !.cooldownOrphans = IF w.resendTimer THEN @ + 1 ELSE @,
                 !.resendTimer = TRUE]

\* EmailVerificationWidget.stopResendCooldown.
stopResendCooldown(w) ==
  updateResendButton([w EXCEPT !.resendTimer = FALSE, !.resendCooldown = 0])

\* Mutant of handleVerified: the polling interval is left running.
handleVerified_KeepsPolling(w) ==
  LET w1 == setState(w, "success")
  IN  [w1 EXCEPT !.invoked = @ \cup {"onVerified"}, !.hideTimeouts = @ + 1]

\* EmailVerificationWidget.handleVerified: stop polling, state 'success', call
\* onVerified, and schedule the auto-hide timeout (setTimeout, handle not kept).
handleVerified(w) ==
  LET w1 == setState(stopVerificationPolling(w), "success")
  IN  [w1 EXCEPT !.invoked = @ \cup {"onVerified"}, !.hideTimeouts = @ + 1]

\* EmailVerificationWidget.render: a new resend button, enabled, is created and
\* appended.
render(w) ==
  [w EXCEPT !.buttonExists = TRUE, !.buttonAttached = TRUE,
            !.buttonDisabled = FALSE]

\* EmailVerificationWidget.destroy then FlowstaWidget.destroy: both handles are
\* cleared, the state becomes 'destroyed' and the root is emptied.
destroy(w) ==
  LET w1 == stopResendCooldown(stopVerificationPolling(w))
  IN  [emitEvent(setState(w1, "destroyed"), "destroy") EXCEPT
         !.buttonAttached = FALSE]

\* checkVerificationStatus once its request is answered (or could not be sent):
\* kind "ok" carries emailVerified; any failure is swallowed as "not verified".
afterStatusCheck(w, kind, verified) ==
  IF kind = "ok"
  THEN LET w1 == [w EXCEPT !.emailVerified = verified]
       IN  IF verified THEN handleVerified(w1) ELSE w1
  ELSE [w EXCEPT !.emailVerified = FALSE]

\* Mutant of afterInitialCheck: the rest of initialize() runs whatever the status
\* check reported.
afterInitialCheck_NoShortCircuit(w, o) ==
  LET w1 == setState(render(w), "ready")
      w2 == IF o.autoCheck THEN startVerificationPolling(w1) ELSE w1
  IN  IF o.mode # "inline" THEN show(w2) ELSE w2

\* initialize() lines 51-71, after the status check: stop at 'success' when
\* verified, else render, 'ready', start polling when enabled, show unless inline.
afterInitialCheck(w, o) ==
  IF w.emailVerified THEN setState(w, "success")
  ELSE LET w1 == setState(render(w), "ready")
           w2 == IF o.autoCheck THEN startVerificationPolling(w1) ELSE w1
       IN  IF o.mode # "inline" THEN show(w2) ELSE w2

\* FlowstaWidget.validateClientId: the answers that make it throw.  A 2xx answer
\* is returned to the caller, whatever its body says.
ValidationThrows(kind) == kind \in {"forbidden", "unknown", "reject"}

\* A step begins: no host callback has been called and no event emitted in it
\* yet.
Begin(w) == [w EXCEPT !.invoked = {}, !.emitted = <<>>]

\* No second has passed since construction.
NoTimePassed == [poll |-> 0, hide |-> <<>>, polled |-> FALSE]

InitEmail ==
  /\ clock = NoTimePassed
  /\ ew = NewWidget
  /\ net = NoRequests
  /\ destroyed = FALSE
  /\ everVerified = FALSE
  /\ lastClick = "none"
  /\ lastInit = [validation |-> "none", rendered |-> FALSE]

\* The host calls initialize(): the client-validation request is sent.
Initialize ==
  /\ net.initPc \in {"idle", "done"}
  /\ ew.pollOrphans < MaxOrphans
  /\ net' = [net EXCEPT !.initPc = "validating"]
  /\ ew' = Begin(ew)
  /\ lastInit' = [validation |-> "none", rendered |-> FALSE]
  /\ UNCHANGED <<opt, destroyed>>
  /\ everVerified' = (everVerified \/ ew'.emailVerified)
  /\ lastClick' = "none"
  /\ UNCHANGED outsideEmail

\* The client-validation request is answered.  When validateClientId returns,
\* initialize() starts the status check: its request is sent if a token is
\* available (hasToken), else apiRequest throws NotAuthenticated at once.
ValidationAnswer(kind, hasToken) ==
  /\ net.initPc = "validating"
  /\ lastInit' = [lastInit EXCEPT
                    !.validation = kind,
                    !.rendered = ~ValidationThrows(kind) /\ ~hasToken]
  /\ IF ValidationThrows(kind)
     THEN /\ ew' = handleError(Begin(ew))
          /\ net' = [net EXCEPT !.initPc = "done"]
     ELSE IF hasToken
     THEN /\ ew' = Begin(ew)
          /\ net' = [net EXCEPT !.initPc = "checking"]
     ELSE /\ ew' = afterInitialCheck(
                     afterStatusCheck(Begin(ew), "notauth", FALSE), opt)
          /\ net' = [net EXCEPT !.initPc = "done"]
  /\ UNCHANGED <<opt, destroyed>>
  /\ everVerified' = (everVerified \/ ew'.emailVerified)
  /\ lastClick' = "none"
  /\ UNCHANGED outsideEmail

\* The status request made by initialize() is answered.
InitialStatusAnswer(kind, verified) ==
  /\ net.initPc = "checking"
  /\ (kind = "ok" /\ verified) => ew.hideTimeouts < MaxTimeouts
  /\ LET w1 == afterStatusCheck(Begin(ew), kind, verified)
     IN  /\ ew' = afterInitialCheck(w1, opt)
         /\ lastInit' = [lastInit EXCEPT !.rendered = ~w1.emailVerified]
  /\ net' = [net EXCEPT !.initPc = "done", !.staleInit = FALSE]
  /\ UNCHANGED <<opt, destroyed>>
  /\ everVerified' = (everVerified \/ ew'.emailVerified)
  /\ lastClick' = "none"
  /\ UNCHANGED outsideEmail

\* A polling interval fires (the one the handle names or an unreferenced one):
\* checkVerificationStatus() sends its request, or fails at once without a token.
PollTick(hasToken) ==
  /\ ew.verificationCheckInterval \/ ew.pollOrphans > 0
  /\ net.statusChecks < MaxInFlight
  /\ IF hasToken
     THEN /\ ew' = Begin(ew)
          /\ net' = [net EXCEPT !.statusChecks = @ + 1]
     ELSE /\ ew' = afterStatusCheck(Begin(ew), "notauth", FALSE)
          /\ UNCHANGED net
  /\ UNCHANGED <<opt, destroyed, lastInit>>
  /\ everVerified' = (everVerified \/ ew'.emailVerified)
  /\ lastClick' = "none"
  /\ UNCHANGED outsideEmail

\* A status request made by a polling tick is answered.
PollStatusAnswer(kind, verified) ==
  /\ net.statusChecks > 0
  /\ (kind = "ok" /\ verified) => ew.hideTimeouts < MaxTimeouts
  /\ ew' = afterStatusCheck(Begin(ew), kind, verified)
  /\ net' = [net EXCEPT !.statusChecks = @ - 1,
                        !.staleStatus = StaleLeft(@, net.statusChecks)]
  /\ UNCHANGED <<opt, destroyed, lastInit>>
  /\ everVerified' = (everVerified \/ ew'.emailVerified)
  /\ lastClick' = "none"
  /\ UNCHANGED outsideEmail

\* handleResendEmail's catch block: 'error' (twice: setState, then handleError),
\* onError, and the button leaves its loading state.
resendFailed(w) ==
  LET w1 == handleError(setState(w, "error"))
  IN  [w1 EXCEPT !.invoked = @ \cup {"onError"},
                 !.buttonDisabled = IF w.buttonExists THEN FALSE ELSE @]

\* Mutant of InCooldown: the guard is missing.
InCooldown_GuardMissing(w) == FALSE

\* handleResendEmail lines 451-453: the call returns at once during a cooldown.
InCooldown(w) == w.resendCooldown > 0

\* The user clicks the resend button.  createButton's listener drops the click
\* on a disabled button; handleResendEmail() returns at once during a cooldown,
\* else goes to 'loading', puts the button in its loading state and sends the
\* request (or fails at once without a token).
ClickResend(hasToken) ==
  /\ ew.buttonAttached
  /\ IF ew.buttonDisabled
     THEN /\ ew' = Begin(ew)
          /\ lastClick' = "disabled"
          /\ UNCHANGED net
     ELSE IF InCooldown(ew)
     THEN /\ ew' = Begin(ew)
          /\ lastClick' = "cooldown"
          /\ UNCHANGED net
     ELSE LET w1 == [setState(Begin(ew), "loading") EXCEPT !.buttonDisabled = TRUE]
          IN  IF hasToken
              THEN /\ net.resends < MaxInFlight
                   /\ ew' = w1
                   /\ lastClick' = "sent"
                   /\ net' = [net EXCEPT !.resends = @ + 1]
              ELSE /\ ew' = resendFailed(w1)
                   /\ lastClick' = "failed"
                   /\ UNCHANGED net
  /\ UNCHANGED <<opt, destroyed, lastInit>>
  /\ everVerified' = (everVerified \/ ew'.emailVerified)
  /\ UNCHANGED outsideEmail

\* handleResendEmail lines 467-479, after a 2xx answer: start the cooldown, call
\* onResend, state 'ready'.
resendSucceeded(w, seconds) ==
  LET w1 == startResendCooldown(w, seconds)
  IN  setState([w1 EXCEPT !.invoked = @ \cup {"onResend"}], "ready")

\* The resend request is answered.
ResendAnswer(kind) ==
  /\ net.resends > 0
  /\ kind = "ok" => ew.cooldownOrphans < MaxOrphans
  /\ ew' = IF kind = "ok" THEN resendSucceeded(Begin(ew), CooldownSeconds)
           ELSE resendFailed(Begin(ew))
  /\ net' = [net EXCEPT !.resends = @ - 1,
                        !.staleResends = StaleLeft(@, net.resends)]
  /\ UNCHANGED <<opt, destroyed, lastInit>>
  /\ everVerified' = (everVerified \/ ew'.emailVerified)
  /\ lastClick' = "none"
  /\ UNCHANGED outsideEmail

\* Mutant of cooldownTick: the interval is not stopped at zero.
cooldownTick_NeverStops(w) ==
  updateResendButton([w EXCEPT !.resendCooldown = @ - 1])

\* The callback of startResendCooldown's interval: one second less, and the
\* cooldown is stopped at zero.
cooldownTick(w) ==
  LET w1 == updateResendButton([w EXCEPT !.resendCooldown = @ - 1])
  IN  IF w1.resendCooldown <= 0 THEN stopResendCooldown(w1) ELSE w1

\* A cooldown interval fires.
CooldownTick ==
  /\ ew.resendTimer \/ ew.cooldownOrphans > 0
  /\ ew' = cooldownTick(Begin(ew))
  /\ UNCHANGED <<net, opt, destroyed, lastInit>>
  /\ everVerified' = (everVerified \/ ew'.emailVerified)
  /\ lastClick' = "none"
  /\ UNCHANGED outsideEmail

\* The auto-hide timeout of handleVerified fires: hide().
HideTimeout ==
  /\ ew.hideTimeouts > 0
  /\ ew' = hide([Begin(ew) EXCEPT !.hideTimeouts = @ - 1])
  /\ UNCHANGED <<net, opt, destroyed, lastInit>>
  /\ everVerified' = (everVerified \/ ew'.emailVerified)
  /\ lastClick' = "none"
  /\ UNCHANGED outsideEmail

\* The user clicks the close / dismiss button: handleDismiss().
Dismiss ==
  /\ ew.buttonAttached
  /\ ew' = hide([stopVerificationPolling(Begin(ew)) EXCEPT
                   !.invoked = @ \cup {"onDismiss"}])
  /\ UNCHANGED <<net, opt, destroyed, lastInit>>
  /\ everVerified' = (everVerified \/ ew'.emailVerified)
  /\ lastClick' = "none"
  /\ UNCHANGED outsideEmail

\* The host calls show().
Show ==
  /\ ew' = show(Begin(ew))
  /\ UNCHANGED <<net, opt, destroyed, lastInit>>
  /\ everVerified' = (everVerified \/ ew'.emailVerified)
  /\ lastClick' = "none"
  /\ UNCHANGED outsideEmail

\* The host calls hide().
Hide ==
  /\ ew' = hide(Begin(ew))
  /\ UNCHANGED <<net, opt, destroyed, lastInit>>
  /\ everVerified' = (everVerified \/ ew'.emailVerified)
  /\ lastClick' = "none"
  /\ UNCHANGED outsideEmail

\* The host calls destroy().
Destroy ==
  /\ ~destroyed
  /\ ew' = destroy(Begin(ew))
  /\ destroyed' = TRUE
  /\ net' = [net EXCEPT !.staleInit = (net.initPc = "checking"),
                        !.staleStatus = net.statusChecks,
                        !.staleResends = net.resends]
  /\ UNCHANGED <<opt, lastInit>>
  /\ everVerified' = (everVerified \/ ew'.emailVerified)
  /\ lastClick' = "none"
  /\ UNCHANGED outsideEmail

ValidationKinds == {"valid", "invalid", "forbidden", "unknown", "reject"}

NextEmail ==
  \/ Initialize
  \/ \E kind \in ValidationKinds, hasToken \in BOOLEAN :
       ValidationAnswer(kind, hasToken)
  \/ \E kind \in ResponseKinds, verified \in BOOLEAN :
       InitialStatusAnswer(kind, verified)
  \/ \E hasToken \in BOOLEAN : PollTick(hasToken)
  \/ \E kind \in ResponseKinds, verified \in BOOLEAN :
       PollStatusAnswer(kind, verified)
  \/ \E hasToken \in BOOLEAN : ClickResend(hasToken)
  \/ \E kind \in ResponseKinds : ResendAnswer(kind)
  \/ CooldownTick
  \/ HideTimeout
  \/ Dismiss
  \/ Show
  \/ Hide
  \/ Destroy

\* ------------------------------- widgets: EmailVerificationWidget, with time
\* One time unit is a second: the period of the cooldown interval
\* (startResendCooldown, 1000 ms).  initialize() is called once per instance
\* here, so the polling interval and the cooldown interval are the ones the
\* handles name.

\* The ages of the auto-hide timeouts pending once a second more has passed: a
\* timeout scheduled since the previous second is one second old.
hideAges(w, c) ==
  [i \in 1 .. w.hideTimeouts |->
     IF i <= Len(c.hide) THEN c.hide[i] + 1 ELSE 1]

\* Mutant of pollDue: the polling interval fires every second.
pollDue_EverySecond(w, c) == w.verificationCheckInterval

\* The polling interval (setInterval, 5000 ms) fires in the coming second.
pollDue(w, c) ==
  w.verificationCheckInterval /\ c.poll + 1 = PollIntervalSeconds

\* The host calls initialize(), for the first time.
InitializeOnce ==
  /\ net.initPc = "idle"
  /\ Initialize

\* A second passes, and every timer due fires: the cooldown interval (each
\* second), the polling interval (checkVerificationStatus: its request is sent
\* if a token is available, else it fails at once) and the auto-hide timeouts
\* that are HideDelaySeconds old (hide()).
Tick(hasToken) ==
  /\ (pollDue(ew, clock) /\ hasToken) => net.statusChecks < MaxOverlap
  /\ (~pollDue(ew, clock)) => hasToken
  /\ LET ages == hideAges(ew, clock)
         due  == Len(SelectSeq(ages, LAMBDA a : a >= HideDelaySeconds))
         w0   == Begin(ew)
         w1   == IF w0.resendTimer THEN cooldownTick(w0) ELSE w0
         w2   == IF pollDue(ew, clock) /\ ~hasToken
                 THEN afterStatusCheck(w1, "notauth", FALSE) ELSE w1
         w3   == IF due > 0
                 THEN hide([w2 EXCEPT !.hideTimeouts = @ - due]) ELSE w2
     IN  /\ ew' = w3
         /\ net' = IF pollDue(ew, clock) /\ hasToken
                   THEN [net EXCEPT !.statusChecks = @ + 1] ELSE net
         /\ clock' = [poll |-> IF ew.verificationCheckInterval /\ ~pollDue(ew, clock)
                               THEN clock.poll + 1 ELSE 0,
                      hide |-> SelectSeq(ages, LAMBDA a : a < HideDelaySeconds),
                      polled |-> pollDue(ew, clock)]
  /\ UNCHANGED <<opt, destroyed, lastInit>>
  /\ everVerified' = (everVerified \/ ew'.emailVerified)
  /\ lastClick' = "none"
  /\ UNCHANGED outsideTimers

NextTimed ==
  \/ InitializeOnce
  \/ \E kind \in ValidationKinds, hasToken \in BOOLEAN :
       ValidationAnswer(kind, hasToken)
  \/ \E kind \in ResponseKinds, verified \in BOOLEAN :
       InitialStatusAnswer(kind, verified)
  \/ \E hasToken \in BOOLEAN : Tick(hasToken)
  \/ \E kind \in ResponseKinds, verified \in BOOLEAN :
       PollStatusAnswer(kind, verified)
  \/ \E hasToken \in BOOLEAN : ClickResend(hasToken)
  \/ \E kind \in ResponseKinds : ResendAnswer(kind)
  \/ Dismiss
  \/ Show
  \/ Destroy

\* ------------------------------------------------------- widgets: text inputs
\* Strings are sequences of characters, as in the URL section.

UpperCaseLetters ==
  <<"A", "B", "C", "D", "E", "F", "G", "H", "I", "J", "K", "L", "M", "N", "O",
    "P", "Q", "R", "S", "T", "U", "V", "W", "X", "Y", "Z">>

LowerCaseLetters ==
  <<"a", "b", "c", "d", "e", "f", "g", "h", "i", "j", "k", "l", "m", "n", "o",
    "p", "q", "r", "s", "t", "u", "v", "w", "x", "y", "z">>

\* The white space the inputs use (what \s matches and trim() removes).
WhiteSpace == {" ", "\t", "\n"}

\* String.prototype.toLowerCase.
toLowerCase(s) ==
  [i \in 1 .. Len(s) |->
     IF \E k \in 1 .. 26 : UpperCaseLetters[k] = s[i]
     THEN LowerCaseLetters[CHOOSE k \in 1 .. 26 : UpperCaseLetters[k] = s[i]]
     ELSE s[i]]

\* String.prototype.trim: white space is removed at both ends.
RECURSIVE trim(_)
trim(s) ==
  IF s = <<>> THEN s
  ELSE IF Head(s) \in WhiteSpace THEN trim(Tail(s))
  ELSE IF s[Len(s)] \in WhiteSpace THEN trim(SubSeq(s, 1, Len(s) - 1))
  ELSE s

\* sanitizeText: DOMPurify.sanitize with no tag allowed ("removes all HTML"):
\* every tag, from "<" to the next ">", is dropped and the text is kept.
RECURSIVE sanitizeText(_)
sanitizeText(s) ==
  IF s = <<>> THEN s
  ELSE IF Head(s) = "<" /\ \E j \in 1 .. Len(s) : s[j] = ">"
  THEN LET close == CHOOSE j \in 1 .. Len(s) :
                      s[j] = ">" /\ \A k \in 1 .. (j - 1) : s[k] # ">"
       IN  sanitizeText(SubSeq(s, close + 1, Len(s)))
  ELSE <<Head(s)>> \o sanitizeText(Tail(s))

\* getInputValue: the sanitized value of an input.
getInputValue(value) == sanitizeText(value)

\* String.prototype.split(' '): the pieces between single separator characters.
RECURSIVE split(_, _)
split(s, sep) ==
  IF \A i \in 1 .. Len(s) : s[i] # sep THEN <<s>>
  ELSE LET at == CHOOSE i \in 1 .. Len(s) :
                   s[i] = sep /\ \A k \in 1 .. (i - 1) : s[k] # sep
       IN  <<SubSeq(s, 1, at - 1)>> \o split(SubSeq(s, at + 1, Len(s)), sep)

\* The string without the white space it starts with.
RECURSIVE trimStart(_)
trimStart(s) ==
  IF s # <<>> /\ Head(s) \in WhiteSpace THEN trimStart(Tail(s)) ELSE s

\* String.prototype.split(/\s+/): the pieces between runs of white space.
RECURSIVE splitWhiteSpace(_)
splitWhiteSpace(s) ==
  IF \A i \in 1 .. Len(s) : s[i] \notin WhiteSpace THEN <<s>>
  ELSE LET at == CHOOSE i \in 1 .. Len(s) :
                   s[i] \in WhiteSpace /\ \A k \in 1 .. (i - 1) : s[k] \notin WhiteSpace
       IN  <<SubSeq(s, 1, at - 1)>>
             \o splitWhiteSpace(trimStart(SubSeq(s, at, Len(s))))

\* -------------------------------------------- widgets: RecoveryPhraseWidget

\* The recovery phrases the service may answer with: PhraseLen words joined by
\* single spaces, the words "ab" and "Ba" alternating.
Phrases ==
  {Join([i \in 1 .. PhraseLen |-> IF i % 2 = 1 THEN ws[1] ELSE ws[2]], <<" ">>) :
     ws \in {<< <<"a", "b">>, <<"B", "a">> >>, << <<"B", "a">>, <<"a", "b">> >>}}

\* The verificationIndices the service may answer with: 1 .. MaxSampled distinct
\* 0-based positions of the phrase.
SampledIndexLists ==
  {q \in UNION {[1 .. n -> 0 .. (PhraseLen - 1)] : n \in 1 .. MaxSampled} :
     \A i, j \in DOMAIN q : q[i] = q[j] => i = j}

\* What the user may type into a verification input: a word as it is, a word
\* in capitals between spaces, and a word after a tag.
TypedWords ==
  {<<"a", "b">>, <<" ", "B", "A", " ">>, <<"<", "b", ">", "a", "b">>}

\* The instance after construction.  rendered is the step whose content is in
\* the root ("none": nothing); passwordError and wordErrors are the inline
\* messages on the inputs; caught tells that the latest step ran a catch block,
\* rejected names the local validation that stopped it.
NewPhraseWidget ==
  [state |-> "initializing", isVisible |-> FALSE, currentStep |-> "intro",
   recoveryPhrase |-> <<>>, verificationIndices |-> <<>>,
   rendered |-> "none", passwordError |-> "none", wordErrors |-> {},
   invoked |-> {}, emitted |-> <<>>, caught |-> FALSE, rejected |-> "none"]

NoStepRequests == [initPc |-> "idle", generates |-> 0, verifies |-> 0]

\* A step of a step-flow widget begins.
BeginStep(w) == [Begin(w) EXCEPT !.caught = FALSE, !.rejected = "none"]

\* The host's onError callback is called if one was supplied.
callOnError(w, o) == IF o.onError THEN [w EXCEPT !.invoked = @ \cup {"onError"}] ELSE w

\* RecoveryPhraseWidget.renderCurrentStep: the root is cleared and the current
\* step is drawn with new, empty inputs.
renderCurrentStep(w) ==
  [w EXCEPT !.rendered = w.currentStep, !.passwordError = "none",
            !.wordErrors = {}]

\* RecoveryPhraseWidget.goToStep.
goToStep(w, step) == renderCurrentStep([w EXCEPT !.currentStep = step])

\* RecoveryPhraseWidget.show: FlowstaWidget.show, then the step is drawn again.
showStep(w) == renderCurrentStep(show(w))

\* FlowstaWidget.destroy: state 'destroyed', the destroy event, the root emptied.
destroyStep(w) ==
  [emitEvent(setState(w, "destroyed"), "destroy") EXCEPT !.rendered = "none"]

InitPhrase ==
  /\ rp = NewPhraseWidget
  /\ rpNet = NoStepRequests

\* The host calls initialize(): the client-validation request is sent.
PhraseInitialize ==
  /\ widgetType = "recovery-phrase"
  /\ rpNet.initPc \in {"idle", "done"}
  /\ rpNet' = [rpNet EXCEPT !.initPc = "validating"]
  /\ rp' = BeginStep(rp)
  /\ UNCHANGED <<rpOpt, outsidePhrase>>

\* The client-validation request is answered: initialize() renders, goes to
\* 'ready' and shows the widget if autoShow is set; a throw is caught.
PhraseValidationAnswer(kind) ==
  /\ widgetType = "recovery-phrase"
  /\ rpNet.initPc = "validating"
  /\ rpNet' = [rpNet EXCEPT !.initPc = "done"]
  /\ rp' = IF ValidationThrows(kind)
           THEN [handleError(BeginStep(rp)) EXCEPT !.caught = TRUE]
           ELSE LET w1 == setState(renderCurrentStep(BeginStep(rp)), "ready")
                IN  IF rpOpt.autoShow THEN showStep(w1) ELSE w1
  /\ UNCHANGED <<rpOpt, outsidePhrase>>

\* 'Continue' on the intro step.
PhraseClickContinue ==
  /\ widgetType = "recovery-phrase"
  /\ rp.rendered = "intro"
  /\ rp' = goToStep(BeginStep(rp), "password")
  /\ UNCHANGED <<rpNet, rpOpt, outsidePhrase>>

\* 'Set Up Later' on the intro step: handleDismiss().
PhraseClickSetUpLater ==
  /\ widgetType = "recovery-phrase"
  /\ rp.rendered = "intro"
  /\ rpOpt.allowDismiss
  /\ rp' = hide([BeginStep(rp) EXCEPT !.invoked = @ \cup {"onDismiss"}])
  /\ UNCHANGED <<rpNet, rpOpt, outsidePhrase>>

\* 'Back' on the password step and on the verify step.
PhraseClickBack ==
  /\ widgetType = "recovery-phrase"
  /\ rp.rendered \in {"password", "verify"}
  /\ rp' = goToStep(BeginStep(rp),
                    IF rp.rendered = "password" THEN "intro" ELSE "display")
  /\ UNCHANGED <<rpNet, rpOpt, outsidePhrase>>

\* handleGeneratePhrase's catch block: 'error', an inline message on the
\* password input, onError.  No error event is emitted.
generateFailed(w, o) ==
  LET w1 == [setState(w, "error") EXCEPT
               !.caught = TRUE,
               !.passwordError = IF w.rendered = "password" THEN "failed" ELSE @]
  IN  callOnError(w1, o)

\* 'Generate Phrase' on the password step: handleGeneratePhrase() up to its
\* request.  An empty password is refused with an inline message.
PhraseClickGenerate(hasPassword, hasToken) ==
  /\ widgetType = "recovery-phrase"
  /\ rp.rendered = "password"
  /\ IF ~hasPassword
     THEN /\ rp' = [BeginStep(rp) EXCEPT !.passwordError = "required",
                                         !.rejected = "password"]
          /\ UNCHANGED rpNet
     ELSE LET w1 == setState(BeginStep(rp), "loading")
          IN  IF hasToken
              THEN /\ rpNet.generates < MaxInFlight
                   /\ rp' = w1
                   /\ rpNet' = [rpNet EXCEPT !.generates = @ + 1]
              ELSE /\ rp' = generateFailed(w1, rpOpt)
                   /\ UNCHANGED rpNet
  /\ UNCHANGED <<rpOpt, outsidePhrase>>

\* The setup request is answered: the phrase and the sampled positions are
\* kept, 'ready', and the display step is shown; a failure is caught.
PhraseGenerateAnswer(kind) ==
  /\ widgetType = "recovery-phrase"
  /\ rpNet.generates > 0
  /\ rpNet' = [rpNet EXCEPT !.generates = @ - 1]
  /\ IF kind = "ok"
     THEN \E phrase \in Phrases, indices \in SampledIndexLists :
            rp' = goToStep(setState([BeginStep(rp) EXCEPT
                                       !.recoveryPhrase = phrase,
                                       !.verificationIndices = indices],
                                    "ready"),
                           "display")
     ELSE rp' = generateFailed(BeginStep(rp), rpOpt)
  /\ UNCHANGED <<rpOpt, outsidePhrase>>

\* Mutant of PhraseClickVerification: the checkbox is not looked at.
PhraseClickVerification_IgnoresCheckbox(checked) ==
  /\ widgetType = "recovery-phrase"
  /\ rp.rendered = "display"
  /\ rp' = goToStep(BeginStep(rp), "verify")
  /\ UNCHANGED <<rpNet, rpOpt, outsidePhrase>>

\* 'Continue to Verification' on the display step: goToVerification() only
\* alerts while the confirmation checkbox is not checked.
PhraseClickVerification(checked) ==
  /\ widgetType = "recovery-phrase"
  /\ rp.rendered = "display"
  /\ rp' = IF checked THEN goToStep(BeginStep(rp), "verify") ELSE BeginStep(rp)
  /\ UNCHANGED <<rpNet, rpOpt, outsidePhrase>>

\* Mutant of userWord: the typed word is not trimmed.
userWord_NotTrimmed(value) == toLowerCase(sanitizeText(getInputValue(value)))

\* handleVerify line 538-540: a typed word as it is compared and sent.
userWord(value) == trim(toLowerCase(sanitizeText(getInputValue(value))))

\* handleVerify lines 538-540: userWord, tabulated over what may be typed.
userWords == [value \in TypedWords |-> userWord(value)]

\* handleVerify lines 543-554: the inputs whose word is not the phrase's word
\* at the sampled position.
incorrectWords(w, values) ==
  LET words == split(w.recoveryPhrase, " ")
  IN  {i \in 1 .. Len(w.verificationIndices) :
         toLowerCase(words[w.verificationIndices[i] + 1]) # userWords[values[i]]}

\* handleVerify's catch block: 'error', the error event, onError.
verifyFailed(w, o) ==
  callOnError([handleError(setState(w, "error")) EXCEPT !.caught = TRUE], o)

\* 'Verify' on the verify step: handleVerify() up to its request.  Incorrect
\* words are marked inline and nothing else happens.
handleVerify(values, hasToken) ==
  LET wrong == incorrectWords(rp, values)
  IN  IF wrong # {}
      THEN /\ rp' = [BeginStep(rp) EXCEPT !.wordErrors = @ \cup wrong,
                                          !.rejected = "words"]
           /\ UNCHANGED rpNet
      ELSE LET w1 == setState(BeginStep(rp), "loading")
           IN  IF hasToken
               THEN /\ rpNet.verifies < MaxInFlight
                    /\ rp' = w1
                    /\ rpNet' = [rpNet EXCEPT !.verifies = @ + 1]
               ELSE /\ rp' = verifyFailed(w1, rpOpt)
                    /\ UNCHANGED rpNet

\* 'Verify' on the verify step, with some word typed into each input.
PhraseClickVerify(hasToken) ==
  /\ widgetType = "recovery-phrase"
  /\ rp.rendered = "verify"
  /\ \E values \in [1 .. Len(rp.verificationIndices) -> TypedWords] :
       handleVerify(values, hasToken)
  /\ UNCHANGED <<rpOpt, outsidePhrase>>

\* The verification request is answered: 'success' and the success step; a
\* failure is caught.
PhraseVerifyAnswer(kind) ==
  /\ widgetType = "recovery-phrase"
  /\ rpNet.verifies > 0
  /\ rpNet' = [rpNet EXCEPT !.verifies = @ - 1]
  /\ rp' = IF kind = "ok"
           THEN goToStep(setState(BeginStep(rp), "success"), "success")
           ELSE verifyFailed(BeginStep(rp), rpOpt)
  /\ UNCHANGED <<rpOpt, outsidePhrase>>

\* 'Done' on the success step: handleComplete().
PhraseClickDone ==
  /\ widgetType = "recovery-phrase"
  /\ rp.rendered = "success"
  /\ rp' = hide([BeginStep(rp) EXCEPT !.invoked = @ \cup {"onComplete"}])
  /\ UNCHANGED <<rpNet, rpOpt, outsidePhrase>>

\* The host calls show().
PhraseShow ==
  /\ widgetType = "recovery-phrase"
  /\ rp' = showStep(BeginStep(rp))
  /\ UNCHANGED <<rpNet, rpOpt, outsidePhrase>>

\* The host calls hide().
PhraseHide ==
  /\ widgetType = "recovery-phrase"
  /\ rp' = hide(BeginStep(rp))
  /\ UNCHANGED <<rpNet, rpOpt, outsidePhrase>>

\* The host calls destroy().
PhraseDestroy ==
  /\ widgetType = "recovery-phrase"
  /\ rp.state # "destroyed"
  /\ rp' = destroyStep(BeginStep(rp))
  /\ UNCHANGED <<rpNet, rpOpt, outsidePhrase>>

NextPhrase ==
  \/ PhraseInitialize
  \/ \E kind \in ValidationKinds : PhraseValidationAnswer(kind)
  \/ PhraseClickContinue
  \/ PhraseClickSetUpLater
  \/ PhraseClickBack
  \/ \E hasPassword \in BOOLEAN, hasToken \in BOOLEAN :
       PhraseClickGenerate(hasPassword, hasToken)
  \/ \E kind \in ResponseKinds : PhraseGenerateAnswer(kind)
  \/ \E checked \in BOOLEAN : PhraseClickVerification(checked)
  \/ \E hasToken \in BOOLEAN : PhraseClickVerify(hasToken)
  \/ \E kind \in ResponseKinds : PhraseVerifyAnswer(kind)
  \/ PhraseClickDone
  \/ PhraseShow
  \/ PhraseHide
  \/ PhraseDestroy

\* ------------------------------------------- widgets: AccountRecoveryWidget

\* The number of words of a recovery phrase (renderPhraseStep's check).
PhraseWordCount == 24

\* validatePassword's minimum length.
MinPasswordLength == 8

\* n one-letter words joined by sep.
WordsText(n, sep) == Join([i \in 1 .. n |-> IF i = 1 THEN <<"W">> ELSE <<"w">>], sep)

\* What the user may type into the phrase textarea: nothing, white space only,
\* word lists one short, exact and one over, an exact list with irregular white
\* space, an exact list followed by a tag, and an exact list with one more word
\* on a second line.
PhraseTexts ==
  {WordsText(n, <<" ">>) :
     n \in {0, 1, PhraseWordCount - 1, PhraseWordCount, PhraseWordCount + 1}}
    \cup {<<" ", "\n">>,
          <<" ">> \o WordsText(PhraseWordCount, <<"\n", " ">>) \o <<"\t">>,
          WordsText(PhraseWordCount, <<" ">>) \o <<" ", "<", "b", ">">>,
          WordsText(PhraseWordCount, <<" ">>) \o <<"\n", "w">>}

\* What the user may type into the email input.
EmailTexts ==
  {<<>>, <<"u", "@", "h", ".", "c">>, <<"u", "@", "h">>, <<"u", "h", ".", "c">>,
   <<"u", " ", "v", "@", "h", ".", "c">>, <<"@", "h", ".", "c">>}

\* What the user may type into the password inputs.
PasswordTexts ==
  {<<>>,
   <<"A", "b", "c", "d", "e", "f", "g", "1">>,
   <<"A", "b", "c", "d", "e", "f", "1">>,
   <<"a", "b", "c", "d", "e", "f", "g", "1">>,
   <<"A", "B", "C", "D", "E", "F", "G", "1">>,
   <<"A", "b", "c", "d", "e", "f", "g", "h">>,
   <<"A", "b", "c", "d", "e", "f", "g", "1", "<", "b", ">">>}

Digits == {"0", "1", "2", "3", "4", "5", "6", "7", "8", "9"}

\* [^\s@]+ : a non-empty run without white space and without "@".
EmailPart(s) == s # <<>> /\ \A i \in 1 .. Len(s) : s[i] \notin WhiteSpace \cup {"@"}

\* AccountRecoveryWidget.validateEmail: /^[^\s@]+@[^\s@]+\.[^\s@]+$/.
validateEmail(email) ==
  \E i, j \in 1 .. Len(email) :
    /\ email[i] = "@" /\ email[j] = "." /\ i < j
    /\ EmailPart(SubSeq(email, 1, i - 1))
    /\ EmailPart(SubSeq(email, i + 1, j - 1))
    /\ EmailPart(SubSeq(email, j + 1, Len(email)))

\* AccountRecoveryWidget.validatePassword(...).valid.
validatePassword(password) ==
  /\ Len(password) >= MinPasswordLength
  /\ \E i \in 1 .. Len(password), k \in 1 .. 26 : password[i] = UpperCaseLetters[k]
  /\ \E i \in 1 .. Len(password), k \in 1 .. 26 : password[i] = LowerCaseLetters[k]
  /\ \E i \in 1 .. Len(password) : password[i] \in Digits

\* The instance after construction.  inputError is the inline message shown on
\* the rendered step, verifyDisabled the loading state of its 'Verify Phrase'
\* button.
NewRecoveryWidget ==
  [state |-> "initializing", isVisible |-> FALSE, currentStep |-> "email",
   userEmail |-> <<>>, rendered |-> "none", inputError |-> "none",
   verifyDisabled |-> FALSE,
   invoked |-> {}, emitted |-> <<>>, caught |-> FALSE, rejected |-> "none"]

NoRecoveryRequests == [initPc |-> "idle", verifies |-> 0, resets |-> 0]

\* AccountRecoveryWidget.renderCurrentStep: the root is cleared and the current
\* step is drawn with new inputs and buttons.
renderRecoveryStep(w) ==
  [w EXCEPT !.rendered = w.currentStep, !.inputError = "none",
            !.verifyDisabled = FALSE]

\* AccountRecoveryWidget.goToStep.
goToRecoveryStep(w, step) == renderRecoveryStep([w EXCEPT !.currentStep = step])

\* AccountRecoveryWidget.show: FlowstaWidget.show, then the step is drawn again.
showRecoveryStep(w) == renderRecoveryStep(show(w))

\* A local validation that reports its failure as a widget error.
refuse_AsWidgetError(w, message) ==
  handleError([w EXCEPT !.inputError = message, !.rejected = message])

\* A local validation refuses the input: an inline message, nothing else.
refuse(w, message) == [w EXCEPT !.inputError = message, !.rejected = message]

InitRecovery ==
  /\ ar = NewRecoveryWidget
  /\ arNet = NoRecoveryRequests

\* The host calls initialize(): the client-validation request is sent.
RecoveryInitialize ==
  /\ widgetType = "account-recovery"
  /\ arNet.initPc \in {"idle", "done"}
  /\ arNet' = [arNet EXCEPT !.initPc = "validating"]
  /\ ar' = BeginStep(ar)
  /\ UNCHANGED <<arOpt, outsideRecovery>>

\* The client-validation request is answered: with a pre-filled email the flow
\* starts at the phrase step; render, 'ready'; a throw is caught.
RecoveryValidationAnswer(kind) ==
  /\ widgetType = "account-recovery"
  /\ arNet.initPc = "validating"
  /\ arNet' = [arNet EXCEPT !.initPc = "done"]
  /\ ar' = IF ValidationThrows(kind)
           THEN [handleError(BeginStep(ar)) EXCEPT !.caught = TRUE]
           ELSE LET w0 == BeginStep(ar)
                    w1 == IF arOpt.email # <<>>
                          THEN [w0 EXCEPT !.userEmail = arOpt.email,
                                          !.currentStep = "phrase"]
                          ELSE w0
                IN  setState(renderRecoveryStep(w1), "ready")
  /\ UNCHANGED <<arOpt, outsideRecovery>>

\* 'Continue' on the email step.
RecoveryClickContinue(value) ==
  /\ widgetType = "account-recovery"
  /\ ar.rendered = "email"
  /\ LET email == sanitizeText(getInputValue(value))
     IN  ar' = IF email = <<>> \/ ~validateEmail(email)
               THEN refuse(BeginStep(ar), "email")
               ELSE goToRecoveryStep([BeginStep(ar) EXCEPT !.userEmail = email],
                                     "phrase")
  /\ UNCHANGED <<arNet, arOpt, outsideRecovery>>

\* 'Cancel' on the email step (drawn when onCancel was supplied): handleCancel().
RecoveryClickCancel ==
  /\ widgetType = "account-recovery"
  /\ ar.rendered = "email"
  /\ arOpt.onCancel
  /\ ar' = hide([BeginStep(ar) EXCEPT !.invoked = @ \cup {"onCancel"}])
  /\ UNCHANGED <<arNet, arOpt, outsideRecovery>>

\* 'Back' on the phrase step and on the password step.
RecoveryClickBack ==
  /\ widgetType = "account-recovery"
  /\ ar.rendered \in {"phrase", "password"}
  /\ ar' = goToRecoveryStep(BeginStep(ar),
                            IF ar.rendered = "phrase" THEN "email" ELSE "phrase")
  /\ UNCHANGED <<arNet, arOpt, outsideRecovery>>

\* Mutant of phraseVerifyFailed: the flow moves on although the request failed.
phraseVerifyFailed_Advances(w, o) ==
  goToRecoveryStep(setState(w, "ready"), "password")

\* verifyRecoveryPhrase's catch block: 'error', the button leaves its loading
\* state, an inline message, onError.  No error event is emitted.
phraseVerifyFailed(w, o) ==
  LET w1 == [setState(w, "error") EXCEPT
               !.caught = TRUE,
               !.verifyDisabled = FALSE,
               !.inputError = IF w.rendered = "phrase" THEN "phrase-invalid" ELSE @]
  IN  callOnError(w1, o)

\* Mutant of phraseWords: the text is split at every single space.
\* The words, had the text been split at single spaces only.
phraseWords_SplitAtSpaces(text) == split(trim(toLowerCase(sanitizeText(text))), " ")

\* The 'Verify Phrase' handler, lines 262 and 270: the words of the typed text.
phraseWords(text) == splitWhiteSpace(trim(toLowerCase(sanitizeText(text))))

\* What the click handler computes from each text the user may type: the
\* phrase (sanitized, lower-cased, trimmed) and its words.
phraseInputs ==
  [text \in PhraseTexts |->
     [phrase |-> trim(toLowerCase(sanitizeText(text))), words |-> phraseWords(text)]]

\* 'Verify Phrase' on the phrase step: empty text and a word count other than
\* 24 are refused inline; else verifyRecoveryPhrase() goes to 'loading', puts
\* the button in its loading state and sends the request.  hasToken: the
\* getAuthToken option was supplied and returns a token; without it apiRequest
\* throws NOT_AUTHENTICATED before any request.
RecoveryClickVerifyPhrase(text, hasToken) ==
  /\ widgetType = "account-recovery"
  /\ hasToken => arOpt.getAuthToken
  /\ ar.rendered = "phrase"
  /\ ~ar.verifyDisabled
  /\ IF phraseInputs[text].phrase = <<>>
     THEN /\ ar' = refuse(BeginStep(ar), "phrase-empty")
          /\ UNCHANGED arNet
     ELSE IF Len(phraseInputs[text].words) # PhraseWordCount
     THEN /\ ar' = refuse(BeginStep(ar), "phrase-count")
          /\ UNCHANGED arNet
     ELSE LET w1 == [setState(BeginStep(ar), "loading") EXCEPT
                       !.verifyDisabled = TRUE, !.inputError = "none"]
          IN  IF hasToken
              THEN /\ arNet.verifies < MaxInFlight
                   /\ ar' = w1
                   /\ arNet' = [arNet EXCEPT !.verifies = @ + 1]
              ELSE /\ ar' = phraseVerifyFailed(w1, arOpt)
                   /\ UNCHANGED arNet
  /\ UNCHANGED <<arOpt, outsideRecovery>>

\* The phrase verification request is answered: 'ready' and the password step;
\* a failure is caught.
RecoveryVerifyAnswer(kind) ==
  /\ widgetType = "account-recovery"
  /\ arNet.verifies > 0
  /\ arNet' = [arNet EXCEPT !.verifies = @ - 1]
  /\ ar' = IF kind = "ok"
           THEN goToRecoveryStep(setState(BeginStep(ar), "ready"), "password")
           ELSE phraseVerifyFailed(BeginStep(ar), arOpt)
  /\ UNCHANGED <<arOpt, outsideRecovery>>

\* Mutant of resetFailed: the catch block reports the error without leaving
\* 'loading'.
resetFailed_StaysLoading(w, o) ==
  callOnError([emitEvent(w, "error") EXCEPT !.caught = TRUE], o)

\* handlePasswordReset's catch block: 'error', the error event, onError.
resetFailed(w, o) ==
  callOnError([handleError(setState(w, "error")) EXCEPT !.caught = TRUE], o)

\* 'Reset Password' on the password step: handlePasswordReset() up to its
\* request.  A confirmation that differs and a password failing the policy are
\* refused inline.
RecoveryClickReset(newValue, confirmValue, hasToken) ==
  /\ widgetType = "account-recovery"
  /\ hasToken => arOpt.getAuthToken
  /\ ar.rendered = "password"
  /\ LET newPassword == getInputValue(newValue)
         confirmPassword == getInputValue(confirmValue)
     IN  IF newPassword # confirmPassword
         THEN /\ ar' = refuse(BeginStep(ar), "mismatch")
              /\ UNCHANGED arNet
         ELSE IF ~validatePassword(newPassword)
         THEN /\ ar' = refuse(BeginStep(ar), "policy")
              /\ UNCHANGED arNet
         ELSE LET w1 == setState(BeginStep(ar), "loading")
              IN  IF hasToken
                  THEN /\ arNet.resets < MaxInFlight
                       /\ ar' = w1
                       /\ arNet' = [arNet EXCEPT !.resets = @ + 1]
                  ELSE /\ ar' = resetFailed(w1, arOpt)
                       /\ UNCHANGED arNet
  /\ UNCHANGED <<arOpt, outsideRecovery>>

\* The reset request is answered: 'success' and the success step; a failure is
\* caught.
RecoveryResetAnswer(kind) ==
  /\ widgetType = "account-recovery"
  /\ arNet.resets > 0
  /\ arNet' = [arNet EXCEPT !.resets = @ - 1]
  /\ ar' = IF kind = "ok"
           THEN goToRecoveryStep(setState(BeginStep(ar), "success"), "success")
           ELSE resetFailed(BeginStep(ar), arOpt)
  /\ UNCHANGED <<arOpt, outsideRecovery>>

\* 'Continue to Login' on the success step: handleComplete().
RecoveryClickDone ==
  /\ widgetType = "account-recovery"
  /\ ar.rendered = "success"
  /\ ar' = hide([BeginStep(ar) EXCEPT !.invoked = @ \cup {"onRecoveryComplete"}])
  /\ UNCHANGED <<arNet, arOpt, outsideRecovery>>

\* The host calls show().
RecoveryShow ==
  /\ widgetType = "account-recovery"
  /\ ar' = showRecoveryStep(BeginStep(ar))
  /\ UNCHANGED <<arNet, arOpt, outsideRecovery>>

\* The host calls hide().
RecoveryHide ==
  /\ widgetType = "account-recovery"
  /\ ar' = hide(BeginStep(ar))
  /\ UNCHANGED <<arNet, arOpt, outsideRecovery>>

\* The host calls destroy().
RecoveryDestroy ==
  /\ widgetType = "account-recovery"
  /\ ar.state # "destroyed"
  /\ ar' = destroyStep(BeginStep(ar))
  /\ UNCHANGED <<arNet, arOpt, outsideRecovery>>

NextRecovery ==
  \/ RecoveryInitialize
  \/ \E kind \in ValidationKinds : RecoveryValidationAnswer(kind)
  \/ \E value \in EmailTexts : RecoveryClickContinue(value)
  \/ RecoveryClickCancel
  \/ RecoveryClickBack
  \/ \E text \in PhraseTexts, hasToken \in BOOLEAN :
       RecoveryClickVerifyPhrase(text, hasToken)
  \/ \E kind \in ResponseKinds : RecoveryVerifyAnswer(kind)
  \/ \E newValue \in PasswordTexts, confirmValue \in PasswordTexts,
        hasToken \in BOOLEAN :
       RecoveryClickReset(newValue, confirmValue, hasToken)
  \/ \E kind \in ResponseKinds : RecoveryResetAnswer(kind)
  \/ RecoveryClickDone
  \/ RecoveryShow
  \/ RecoveryHide
  \/ RecoveryDestroy

\* ------------------------------------------------------- widgets: render()
\* The children of a widget's root as a sequence of nodes, each named by what
\* it is: "theme" (the style element of injectTheme), "banner", "backdrop",
\* "card" (the panels of the email widget, each holding a new resend button
\* with its click listener; "banner-dismissible" and "backdrop-dismissible"
\* hold a close button with its listeners, too), "animation" (the style
\* element with the keyframes), the name of a step (that step's content), "dashboard", and
\* "host" (a child the host page had put into the container).

EmailModes == {"banner", "modal", "inline"}

PhraseSteps == {"intro", "password", "display", "verify", "success"}

RecoverySteps == {"email", "phrase", "password", "success"}

\* The steps of a step-flow widget.
StepsOf(widget) ==
  IF widget = "recovery-phrase" THEN PhraseSteps
  ELSE IF widget = "account-recovery" THEN RecoverySteps
  ELSE {"none"}

\* A widget after construction.  resendButton is the position in the root of
\* the panel that holds the button the field refers to (0: null); loaded tells
\* that the dashboard holds a securityStatus; lastCall names the latest method
\* that ran ("new": the constructor).
NewDom(widget, mode, dismissible, step, root) ==
  [widget |-> widget, mode |-> mode, dismissible |-> dismissible,
   step |-> step, root |-> root,
   resendButton |-> 0, loaded |-> FALSE, lastCall |-> "new"]

\* injectStyles: a new style element is appended to the root.
injectStyles(root, css) == Append(root, css)

\* FlowstaWidget.injectTheme.
injectTheme(d) == [d EXCEPT !.root = injectStyles(@, "theme")]

\* EmailVerificationWidget.renderBanner / renderModal / renderInline: the panel
\* with a new resend button is appended to the root, and after it, in banner
\* and modal mode, the style element with the animation.
renderMode(d) ==
  LET panel == IF d.mode = "banner"
               THEN (IF d.dismissible THEN "banner-dismissible" ELSE "banner")
               ELSE IF d.mode = "modal"
               THEN (IF d.dismissible THEN "backdrop-dismissible" ELSE "backdrop")
               ELSE "card"
      withPanel == Append(d.root, panel)
  IN  [d EXCEPT !.resendButton = Len(withPanel),
                !.root = IF d.mode = "inline" THEN withPanel
                         ELSE Append(withPanel, "animation")]

\* renderCurrentStep of the step-flow widgets: every child of the root is
\* removed and the current step's content appended.
renderStepContent(d) == [d EXCEPT !.root = <<d.step>>]

\* SecurityDashboardWidget.render after injectTheme: every child of the root
\* is removed and the dashboard (or, without a status, the alert) appended.
renderDashboard(d) ==
  [d EXCEPT !.root = IF d.loaded THEN <<"dashboard">> ELSE <<"alert">>]

\* render() of each widget.
renderDom(d) ==
  IF d.widget = "email-verification" THEN renderMode(injectTheme(d))
  ELSE IF d.widget = "security-dashboard" THEN renderDashboard(injectTheme(d))
  ELSE renderStepContent(injectTheme(d))

\* A widget is constructed on a container: its root is a new shadow root, or
\* the container with what the host had put in it.
InitDom ==
  \E widget \in {"email-verification", "recovery-phrase", "account-recovery",
                  "security-dashboard"},
     mode \in EmailModes, dismissible \in BOOLEAN,
     step \in {"intro", "email", "phrase", "none"},
     root \in {<<>>, <<"host">>} :
    /\ (widget = "email-verification") \/ (mode = "banner" /\ dismissible)
    /\ step = (IF widget = "recovery-phrase" THEN "intro"
                 ELSE IF widget = "account-recovery" THEN step ELSE "none")
    /\ widget = "account-recovery" => step \in {"email", "phrase"}
    /\ dom = NewDom(widget, mode, dismissible, step, root)

\* render() is called: by initialize(), and by the dashboard's refresh().  The
\* dashboard renders only once it holds a status.
DomRender ==
  /\ dom.widget = "security-dashboard" => dom.loaded
  /\ Len(dom.root) + 3 <= MaxRootNodes
  /\ dom' = [renderDom(dom) EXCEPT !.lastCall = "render"]
  /\ UNCHANGED outsideRender

\* The dashboard's fetchSecurityStatus() succeeds.
DomFetchStatus ==
  /\ dom.widget = "security-dashboard"
  /\ ~dom.loaded
  /\ dom' = [dom EXCEPT !.loaded = TRUE, !.lastCall = "fetchSecurityStatus"]
  /\ UNCHANGED outsideRender

\* goToStep of a step-flow widget: the step changes and is drawn.
DomGoToStep(step) ==
  /\ dom.widget \in {"recovery-phrase", "account-recovery"}
  /\ step \in StepsOf(dom.widget)
  /\ dom' = renderStepContent([dom EXCEPT !.step = step, !.lastCall = "goToStep"])
  /\ UNCHANGED outsideRender

\* FlowstaWidget.destroy: every child of the root is removed.
DomDestroy ==
  /\ dom.root # <<>>
  /\ dom' = [dom EXCEPT !.root = <<>>, !.lastCall = "destroy"]
  /\ UNCHANGED outsideRender

NextRender ==
  \/ DomRender
  \/ DomFetchStatus
  \/ \E step \in PhraseSteps \cup RecoverySteps : DomGoToStep(step)
  \/ DomDestroy

\* --------------------------------------------------- widgets: apiRequest()
\* FlowstaWidget.getAuthToken and FlowstaWidget.apiRequest, one call at a time.

\* What the host's options.getAuthToken is: absent; a function that yields a
\* token; one that yields null or the empty string; one that throws.
Accessors == {"absent", "token", "empty", "throws"}

\* The status codes the service may answer with.
Statuses == {200, 204, 401, 404, 500}

\* The body of a response: JSON, or something response.json() cannot parse
\* (no content, an HTML error page).
Bodies == {"json", "unparsable"}

\* Response.ok.
IsOk(status) == status \in 200 .. 299

\* No call has been made.  accessor, status and body are the inputs of the
\* latest call (status 0: no response was received), sent tells that its
\* request was handed to fetch and requests counts the requests of all calls,
\* outcome is "value" or the code of the WidgetError it threw, errorStatus the
\* details.status of that error.
NoCalls ==
  [pc |-> "idle", calls |-> 0, requests |-> 0, accessor |-> "absent",
   sent |-> FALSE,
   status |-> 0, body |-> "none", outcome |-> "none", errorStatus |-> 0]

\* FlowstaWidget.getAuthToken: the token, or the code of the error thrown;
\* what the host's function throws is not a WidgetError.
getAuthToken(accessor) ==
  IF accessor = "absent" THEN "NOT_AUTHENTICATED"
  ELSE IF accessor = "throws" THEN "host error"
  ELSE IF accessor = "empty" THEN "NOT_AUTHENTICATED"
  ELSE "token"

\* The catch block of apiRequest: a WidgetError is thrown on, everything else
\* becomes a NETWORK_ERROR.
rethrown(error) ==
  IF error \in {"NOT_AUTHENTICATED", "API_ERROR"} THEN error ELSE "NETWORK_ERROR"

\* apiRequest() is called: getAuthToken() answers, and with a token the request
\* is handed to fetch.
ApiCall(accessor) ==
  /\ api.pc \in {"idle", "done"}
  /\ api.calls < MaxCalls
  /\ LET token == getAuthToken(accessor)
         call == [NoCalls EXCEPT !.calls = api.calls + 1,
                                 !.requests = api.requests,
                                 !.accessor = accessor]
     IN  api' = IF token = "token"
                THEN [call EXCEPT !.pc = "fetching", !.sent = TRUE,
                                  !.requests = @ + 1]
                ELSE [call EXCEPT !.pc = "done", !.outcome = rethrown(token)]
  /\ UNCHANGED outsideApi

\* fetch rejects: no response.
ApiNoResponse ==
  /\ api.pc = "fetching"
  /\ api' = [api EXCEPT !.pc = "done", !.outcome = rethrown("TypeError")]
  /\ UNCHANGED outsideApi

\* fetch resolves with a response.  A status outside 2xx throws API_ERROR with
\* the status, whatever the body; else the parsed body is returned, and a body
\* that cannot be parsed makes response.json() throw.
ApiResponse(status, body) ==
  /\ api.pc = "fetching"
  /\ LET answered == [api EXCEPT !.pc = "done", !.status = status, !.body = body]
     IN  api' = IF ~IsOk(status)
                THEN [answered EXCEPT !.outcome = rethrown("API_ERROR"),
                                      !.errorStatus = status]
                ELSE IF body = "json"
                THEN [answered EXCEPT !.outcome = "value"]
                ELSE [answered EXCEPT !.outcome = rethrown("SyntaxError")]
  /\ UNCHANGED outsideApi

NextApi ==
  \/ \E accessor \in Accessors : ApiCall(accessor)
  \/ ApiNoResponse
  \/ \E status \in Statuses, body \in Bodies : ApiResponse(status, body)

\* ------------------------------------------ widgets: SecurityDashboardWidget

\* The status flags the two endpoints report, as the code reads them: truthy or
\* not.
StatusFlags == [active : BOOLEAN, verified : BOOLEAN, emailVerified : BOOLEAN]

\* Mutant of calculateSecurityScore: the weights its comments announce (40 for
\* an active phrase), summed without the cap.
calculateSecurityScore_Uncapped(securityStatus) ==
  IF securityStatus = <<>> THEN 0
  ELSE LET s == securityStatus[1]
       IN  (IF s.emailVerified THEN 30 ELSE 0)
           + (IF s.active THEN 40 ELSE 0)
           + (IF s.verified THEN 10 ELSE 0)
           + 30

\* SecurityDashboardWidget.calculateSecurityScore: 0 without a status; else 30
\* for a verified email, 30 for an active phrase, 10 for a verified phrase and 30
\* for the password (always granted), capped at maxScore.
calculateSecurityScore(securityStatus) ==
  IF securityStatus = <<>> THEN 0
  ELSE LET s == securityStatus[1]
           score == (IF s.emailVerified THEN 30 ELSE 0)
                    + (IF s.active THEN 30 ELSE 0)
                    + (IF s.verified THEN 10 ELSE 0)
                    + 30
       IN  IF score < 100 THEN score ELSE 100

\* Nothing rendered in the root yet.
NothingRendered == [kind |-> "none", status |-> <<>>, score |-> 0]

\* SecurityDashboardWidget.render: the root is emptied and renderDashboard
\* appends the error alert when there is no status, else the dashboard built
\* from the status and its score.
renderSecurityDashboard(w) ==
  [w EXCEPT !.rendered =
     IF w.securityStatus = <<>>
     THEN [kind |-> "alert", status |-> <<>>, score |-> 0]
     ELSE [kind |-> "dashboard", status |-> w.securityStatus,
           score |-> calculateSecurityScore(w.securityStatus)]]

\* The instance after construction: state 'initializing', securityStatus null,
\* an empty root.  onError is the option: a callback is supplied or not.  calls
\* are the fetchSecurityStatus() invocations in progress: who awaits it
\* ('initialize' or 'refresh'), which request is in flight ('phrase' then
\* 'email'), the first answer, and as history whether a call started later has
\* already completed (superseded by a refresh).  invoked and emitted are the callbacks called
\* and the events emitted by the latest step; finished is history: the caller of
\* the fetchSecurityStatus() the latest step completed, and what it fetched.
NewDashboard(onError) ==
  [state |-> "initializing", securityStatus |-> <<>>,
   rendered |-> NothingRendered, onError |-> onError,
   initPc |-> "idle", calls |-> <<>>,
   invoked |-> {}, emitted |-> <<>>,
   finished |-> [by |-> "none", ok |-> FALSE, status |-> <<>>]]

\* A step begins: nothing invoked, emitted or finished yet.
BeginDash(w) ==
  [w EXCEPT !.invoked = {}, !.emitted = <<>>,
            !.finished = [by |-> "none", ok |-> FALSE, status |-> <<>>]]

\* fetchSecurityStatus() is called: the recovery-phrase status request is sent.
startFetch(w, caller) ==
  [w EXCEPT !.calls = Append(@, [by |-> caller, pc |-> "phrase",
                                  active |-> FALSE, verified |-> FALSE,
                                  superseded |-> FALSE])]

\* The sequence s without its i-th element.
RemoveAt(s, i) == SubSeq(s, 1, i - 1) \o SubSeq(s, i + 1, Len(s))

\* The i-th call of fetchSecurityStatus() completes and leaves the calls in
\* progress; when it is a refresh(), the calls started before it are from now
\* on superseded.
completeCall(calls, i) ==
  RemoveAt([j \in 1 .. Len(calls) |->
              IF j < i /\ calls[i].by = "refresh"
              THEN [calls[j] EXCEPT !.superseded = TRUE]
              ELSE calls[j]],
           i)

\* Mutant of fetchFailed: the failure is swallowed.
fetchFailed_NoError(w, caller) ==
  [w EXCEPT !.finished = [by |-> caller, ok |-> FALSE, status |-> <<>>]]

\* The catch block of the caller of fetchSecurityStatus(): initialize() calls
\* handleError; refresh() calls handleError and then the onError option.
fetchFailed(w, caller) ==
  LET w1 == handleError(w)
      w2 == IF caller = "refresh" /\ w.onError
            THEN [w1 EXCEPT !.invoked = @ \cup {"onError"}]
            ELSE w1
  IN  [w2 EXCEPT !.finished = [by |-> caller, ok |-> FALSE, status |-> <<>>]]

\* fetchSecurityStatus() returned: securityStatus is assigned, and the caller
\* (initialize or refresh alike) calls render() and setState('ready').
fetchSucceeded(w, caller, status) ==
  LET w1 == [w EXCEPT !.securityStatus = <<status>>]
      w2 == setState(renderSecurityDashboard(w1), "ready")
  IN  [w2 EXCEPT !.finished = [by |-> caller, ok |-> TRUE, status |-> <<status>>]]

InitDash == \E onError \in BOOLEAN : sd = NewDashboard(onError)

\* initialize(): validateClientId sends its request.
DashInitialize ==
  /\ sd.initPc = "idle"
  /\ sd' = [BeginDash(sd) EXCEPT !.initPc = "validating"]
  /\ UNCHANGED outsideDash

\* The client-validation request is answered: initialize() goes on to
\* fetchSecurityStatus(), or its catch block runs.
DashValidationAnswer(kind) ==
  /\ sd.initPc = "validating"
  /\ Len(sd.calls) < MaxFetches
  /\ sd' = IF ValidationThrows(kind)
           THEN [handleError(BeginDash(sd)) EXCEPT !.initPc = "done"]
           ELSE [startFetch(BeginDash(sd), "initialize") EXCEPT !.initPc = "done"]
  /\ UNCHANGED outsideDash

\* refresh(): setState('loading'), then fetchSecurityStatus() sends its first
\* request.
DashRefresh ==
  /\ Len(sd.calls) < MaxFetches
  /\ sd' = startFetch(setState(BeginDash(sd), "loading"), "refresh")
  /\ UNCHANGED outsideDash

\* The recovery-phrase status request of the i-th call is answered: with the
\* flags, or with a failure (no token, a status outside 2xx, no response).  On
\* success the email status request is sent.
DashPhraseStatusAnswer(i, ok, active, verified) ==
  /\ i \in 1 .. Len(sd.calls)
  /\ sd.calls[i].pc = "phrase"
  /\ LET w == BeginDash(sd)
         c == sd.calls[i]
     IN  sd' = IF ok
               THEN [w EXCEPT !.calls[i] = [c EXCEPT !.pc = "email",
                                                   !.active = active,
                                                   !.verified = verified]]
               ELSE fetchFailed([w EXCEPT !.calls = completeCall(@, i)], c.by)
  /\ UNCHANGED outsideDash

\* The email status request of the i-th call is answered.
DashEmailStatusAnswer(i, ok, emailVerified) ==
  /\ i \in 1 .. Len(sd.calls)
  /\ sd.calls[i].pc = "email"
  /\ LET c == sd.calls[i]
         w == [BeginDash(sd) EXCEPT !.calls = completeCall(@, i)]
     IN  sd' = IF ok
               THEN fetchSucceeded(w, c.by,
                      [active |-> c.active, verified |-> c.verified,
                       emailVerified |-> emailVerified])
               ELSE fetchFailed(w, c.by)
  /\ UNCHANGED outsideDash

NextDash ==
  \/ DashInitialize
  \/ \E kind \in ValidationKinds : DashValidationAnswer(kind)
  \/ DashRefresh
  \/ \E i \in 1 .. MaxFetches, ok \in BOOLEAN, active \in BOOLEAN,
        verified \in BOOLEAN :
       DashPhraseStatusAnswer(i, ok, active, verified)
  \/ \E i \in 1 .. MaxFetches, ok \in BOOLEAN, emailVerified \in BOOLEAN :
       DashEmailStatusAnswer(i, ok, emailVerified)

\* ------------------------------------------------------------ specification
\* The step-flow widgets constructed and left alone.
IdleSteps ==
  /\ widgetType = "recovery-phrase"
  /\ InitPhrase
  /\ rpOpt = [autoShow |-> FALSE, allowDismiss |-> FALSE, onError |-> FALSE]
  /\ InitRecovery
  /\ arOpt = [email |-> <<>>, onCancel |-> FALSE, onError |-> FALSE,
                 getAuthToken |-> FALSE]

\* No render() under study.
IdleRender == dom = NewDom("recovery-phrase", "banner", TRUE, "intro", <<>>)

\* No apiRequest() under study.
IdleApi == api = NoCalls

\* No security dashboard under study.
IdleDash == sd = NewDashboard(FALSE)

\* No login button under study.
IdleClick == lb = createFlowstaLoginButton(FALSE, FALSE, FALSE)

Init ==
  /\ integration \in {"auth", "login-button"}
  /\ nextId = 0
  /\ pending = 0
  /\ InitAuth
  /\ InitButton
  /\ InitUrl(ScenarioConfig)
  /\ InitEmail
  /\ opt = [mode |-> "banner", autoCheck |-> TRUE]
  /\ IdleSteps
  /\ IdleRender
  /\ IdleApi
  /\ IdleDash
  /\ IdleClick

Next == NextAuth \/ NextButton

\* The OAuth engine: FlowstaAuth and the login-button utilities.
Spec == Init /\ [][Next]_vars

\* The authorization URL as a function of the configuration.
InitForUrl ==
  /\ integration \in {"auth", "login-button"}
  /\ nextId = 0
  /\ pending = 0
  /\ InitAuth
  /\ InitButton
  /\ \E cfg \in Configs : InitUrl(cfg)
  /\ InitEmail
  /\ opt = [mode |-> "banner", autoCheck |-> TRUE]
  /\ IdleSteps
  /\ IdleRender
  /\ IdleApi
  /\ IdleDash
  /\ IdleClick

SpecUrl == InitForUrl /\ [][NextUrl]_vars

\* The email-verification widget, for every display mode and with polling
\* enabled or not ('modal' differs from 'banner' only in layout).
InitForEmail ==
  /\ integration = "auth"
  /\ nextId = 0
  /\ pending = 0
  /\ InitAuth
  /\ InitButton
  /\ InitUrl(ScenarioConfig)
  /\ InitEmail
  /\ opt \in [mode : {"banner", "inline"}, autoCheck : BOOLEAN]
  /\ IdleSteps
  /\ IdleRender
  /\ IdleApi
  /\ IdleDash
  /\ IdleClick

SpecEmail == InitForEmail /\ [][NextEmail]_vars

\* Everything but the step-flow widgets, constructed and left alone.
IdleOthers ==
  /\ integration = "auth"
  /\ nextId = 0
  /\ pending = 0
  /\ InitAuth
  /\ InitButton
  /\ InitUrl(ScenarioConfig)
  /\ InitEmail
  /\ opt = [mode |-> "banner", autoCheck |-> TRUE]

\* One step-flow widget is embedded.  The recovery-phrase setup widget: with and
\* without autoShow and onError (allowDismiss only adds the 'Set Up Later'
\* button, so it is set).  The account-recovery widget: with and without a
\* pre-filled email and for every combination of the callbacks and of the
\* token accessor supplied.
InitForSteps ==
  /\ IdleOthers
  /\ IdleRender
  /\ IdleApi
  /\ IdleDash
  /\ IdleClick
  /\ InitPhrase
  /\ InitRecovery
  /\ \/ /\ widgetType = "recovery-phrase"
        /\ rpOpt \in [autoShow : BOOLEAN, allowDismiss : {TRUE}, onError : BOOLEAN]
        /\ arOpt = [email |-> <<>>, onCancel |-> FALSE, onError |-> FALSE,
                 getAuthToken |-> FALSE]
     \/ /\ widgetType = "account-recovery"
        /\ rpOpt = [autoShow |-> FALSE, allowDismiss |-> FALSE, onError |-> FALSE]
        /\ arOpt \in [email : {<<>>, <<"u", "@", "h", ".", "c">>},
                       onCancel : BOOLEAN, onError : BOOLEAN,
                       getAuthToken : BOOLEAN]

NextSteps == NextPhrase \/ NextRecovery

SpecSteps == InitForSteps /\ [][NextSteps]_vars

\* render() of every widget, on a new root and on one that has content.
InitForRender ==
  /\ IdleOthers
  /\ IdleSteps
  /\ IdleApi
  /\ IdleDash
  /\ IdleClick
  /\ InitDom

SpecRender == InitForRender /\ [][NextRender]_vars

\* apiRequest(), for every accessor the host may supply and every answer.
InitForApi ==
  /\ IdleOthers
  /\ IdleSteps
  /\ IdleRender
  /\ api = NoCalls
  /\ IdleDash
  /\ IdleClick

SpecApi == InitForApi /\ [][NextApi]_vars

\* The email-verification widget with time, polling enabled: seconds pass
\* (weak fairness on Tick) and every status request in flight is answered (weak
\* fairness on its answer).
InitForTimers ==
  /\ integration = "auth"
  /\ nextId = 0
  /\ pending = 0
  /\ InitAuth
  /\ InitButton
  /\ InitUrl(ScenarioConfig)
  /\ InitEmail
  /\ opt \in [mode : {"banner", "inline"}, autoCheck : {TRUE}]
  /\ IdleSteps
  /\ IdleRender
  /\ IdleApi
  /\ IdleDash
  /\ IdleClick

SpecTimers ==
  /\ InitForTimers
  /\ [][NextTimed]_vars
  /\ WF_vars(\E hasToken \in BOOLEAN : Tick(hasToken))
  /\ WF_vars(\E kind \in ResponseKinds, verified \in BOOLEAN :
               PollStatusAnswer(kind, verified))

\* The security dashboard: initialize() and refresh(), with and without the
\* onError option, for every answer of the three endpoints.
InitForDash ==
  /\ IdleOthers
  /\ IdleSteps
  /\ IdleRender
  /\ IdleApi
  /\ InitDash
  /\ IdleClick

SpecDash == InitForDash /\ [][NextDash]_vars

\* The dashboard with every request answered: a fetch() in flight settles, with
\* a response or with a rejection, whatever else the page does meanwhile.
SpecDashLive ==
  /\ SpecDash
  /\ \A i \in 1 .. MaxFetches :
       /\ WF_vars(\E ok \in BOOLEAN, active \in BOOLEAN, verified \in BOOLEAN :
                    DashPhraseStatusAnswer(i, ok, active, verified))
       /\ WF_vars(\E ok \in BOOLEAN, emailVerified \in BOOLEAN :
                    DashEmailStatusAnswer(i, ok, emailVerified))

\* The host embeds the email widget, and one of its steps is taken.
EmailStep == widgetType = "email-verification" /\ NextEmail

\* The host embeds the security dashboard, and one of its steps is taken.
DashStep == widgetType = "security-dashboard" /\ NextDash

\* One of the four widgets is embedded, whichever it is.
InitForLoading ==
  /\ IdleOthers
  /\ IdleRender
  /\ IdleApi
  /\ InitPhrase
  /\ InitRecovery
  /\ widgetType \in {"email-verification", "security-dashboard",
                     "recovery-phrase", "account-recovery"}
  /\ rpOpt \in [autoShow : {FALSE},
                 allowDismiss : {widgetType = "recovery-phrase"},
                 onError : {FALSE, widgetType = "recovery-phrase"}]
  /\ arOpt \in [email : {<<>>},
                 onCancel : {widgetType = "account-recovery"},
                 onError : {FALSE, widgetType = "account-recovery"},
                 getAuthToken : {FALSE, widgetType = "account-recovery"}]
  /\ \E onError \in {FALSE, widgetType = "security-dashboard"} :
       sd = NewDashboard(onError)
  /\ IdleClick

NextLoading == EmailStep \/ NextSteps \/ DashStep

\* The embedded widget with every request of a user action answered: a fetch()
\* in flight settles, with a response or with a rejection, whatever else the
\* page does meanwhile.
SpecLoading ==
  /\ InitForLoading
  /\ [][NextLoading]_vars
  /\ WF_vars(\E kind \in ResponseKinds : ResendAnswer(kind))
  /\ WF_vars(\E kind \in ResponseKinds : PhraseGenerateAnswer(kind))
  /\ WF_vars(\E kind \in ResponseKinds : PhraseVerifyAnswer(kind))
  /\ WF_vars(\E kind \in ResponseKinds : RecoveryVerifyAnswer(kind))
  /\ WF_vars(\E kind \in ResponseKinds : RecoveryResetAnswer(kind))
  /\ \A i \in 1 .. MaxFetches :
       /\ WF_vars(\E ok \in BOOLEAN, active \in BOOLEAN, verified \in BOOLEAN :
                    DashPhraseStatusAnswer(i, ok, active, verified))
       /\ WF_vars(\E ok \in BOOLEAN, emailVerified \in BOOLEAN :
                    DashEmailStatusAnswer(i, ok, emailVerified))

\* The login button, for every combination of its options.
InitForClick ==
  /\ integration = "login-button"
  /\ nextId = 0
  /\ pending = 0
  /\ InitAuth
  /\ InitButton
  /\ InitUrl(ScenarioConfig)
  /\ InitEmail
  /\ opt = [mode |-> "banner", autoCheck |-> TRUE]
  /\ IdleSteps
  /\ IdleRender
  /\ IdleApi
  /\ IdleDash
  /\ \E disabled \in BOOLEAN, onClick \in BOOLEAN, onError \in BOOLEAN :
       lb = createFlowstaLoginButton(disabled, onClick, onError)

SpecClick == InitForClick /\ [][NextClick]_vars

\* ==================================================================== claims

\* The errors handleCallback throws before any fetch.
ValidationErrors ==
  {"OAuthDenied", "MissingAuthorizationCode", "CSRFValidationFailed",
   "MissingPKCEVerifier"}

\* The callback's state is absent or differs from the state stored when the
\* call began.
CallbackStateMismatch == cb.state = 0 \/ cb.state # cb.storedAtStart

\* C1: a login attempt completed with exactly the state it returned, before any
\* other callback step, passes validation and, when the provider answers both
\* requests with 2xx, succeeds; a state that completed a login is no longer in the
\* store, nor is its verifier; and a later callback (or validateState) with that
\* state fails the state check.  Both integrations: FlowstaAuth.login /
\* handleCallback, and buildAuthorizationUrl / validateState /
\* retrieveCodeVerifier.
C1_RoundTripThenReplayRejected ==
  /\ (cb.first /\ cb.error = 0 /\ cb.code # 0) => cb.sent >= 1
  /\ (cb.pc = "done" /\ cb.tokenKind = "ok" /\ cb.userKind = "ok")
       => cb.outcome = "ok"
  /\ \A s \in consumed : ssState # s /\ ssVerifier # s
  /\ (cb.pc = "done" /\ cb.wasConsumed /\ cb.error = 0 /\ cb.code # 0)
       => cb.outcome = "CSRFValidationFailed"
  /\ (vs.called /\ vs.first) => vs.ret = 1
  /\ \A s \in validated : obState # s
  /\ (vs.called /\ vs.replay) => vs.ret = 0
  /\ \A s \in retrieved : s \notin obVerifiers
  /\ (rv.called /\ rv.replay) => rv.ret = 0

\* C1 witness: a callback replaying the state of a completed login was rejected.
C1_Witness ==
  /\ cb.pc = "done" /\ cb.wasConsumed /\ cb.error = 0 /\ cb.code # 0
  /\ cb.outcome = "CSRFValidationFailed"
  /\ consumed # {}

\* C2 (as stated): whenever the callback's state is absent or differs from the
\* stored state, the call fails with CSRFValidationFailed and has sent no request.
C2_MismatchAlwaysCSRF ==
  (cb.pc # "idle" /\ CallbackStateMismatch)
    => (cb.pc = "done" /\ cb.outcome = "CSRFValidationFailed" /\ cb.sent = 0)

\* C2 (amended): whenever the callback's state is absent or differs from the
\* stored state, the call fails without having sent any request: with OAuthDenied
\* when the callback carries an error parameter, with MissingAuthorizationCode
\* when it carries no code, and with CSRFValidationFailed otherwise.
C2_StateCheckedBeforeNetwork ==
  (cb.pc # "idle" /\ CallbackStateMismatch)
    => /\ cb.pc = "done"
       /\ cb.sent = 0
       /\ cb.outcome = IF cb.error # 0 THEN "OAuthDenied"
                       ELSE IF cb.code = 0 THEN "MissingAuthorizationCode"
                       ELSE "CSRFValidationFailed"

\* C2 witness: a callback with a code, no error and a state other than the stored
\* one was rejected.
C2_Witness ==
  /\ cb.pc = "done" /\ cb.error = 0 /\ cb.code # 0
  /\ cb.state # 0 /\ cb.storedAtStart # 0 /\ cb.state # cb.storedAtStart
  /\ cb.outcome = "CSRFValidationFailed"

\* C3: once handleCallback has passed validation and has returned or thrown, the
\* store holds neither the callback's state nor its verifier.
C3_EntryDeletedOnceValidated ==
  (cb.pc = "done" /\ cb.sent >= 1)
    => (ssState # cb.state /\ ssVerifier # cb.verifier)

\* C4: a handleCallback step that ends the call in failure, and every step but
\* the successful user-info answer, leaves the in-memory and the persisted
\* session as they were; a session is written only by the step that received a
\* 2xx user-info answer.
C4_FailedLoginStoresNoSession ==
  [][ /\ (cb' # cb /\ cb'.outcome # "ok")
           => UNCHANGED <<accessToken, user, lsToken, lsRefresh, lsUser>>
      /\ ((lsToken' # lsToken /\ lsToken' # 0) \/ (accessToken' # accessToken /\ accessToken' # 0 /\ cb' # cb))
           => (cb.pc = "fetching" /\ cb'.userKind = "ok") ]_vars

\* C4 witness: a login failed at the user-info step while an earlier session was
\* stored.
C4_Witness ==
  /\ cb.pc = "done" /\ cb.outcome = "UserInfoFetchFailed"
  /\ lsToken # 0 /\ accessToken # 0 /\ lsToken # cb.token

\* ------------------------------------------------------------ claims: URL

\* s occurs in t as a contiguous substring.
Contains(t, s) ==
  \E i \in 0 .. (Len(t) - Len(s)) : SubSeq(t, i + 1, i + Len(s)) = s

\* The substrings the scenario names.
Q_client_id_abc ==
  <<"c", "l", "i", "e", "n", "t", "_", "i", "d", "=", "a", "b", "c">>
Q_method_S256 ==
  <<"c", "o", "d", "e", "_", "c", "h", "a", "l", "l", "e", "n", "g", "e",
  "_", "m", "e", "t", "h", "o", "d", "=", "S", "2", "5", "6">>
Q_scope_percent20 ==
  <<"s", "c", "o", "p", "e", "=", "o", "p", "e", "n", "i", "d", "%", "2",
  "0", "e", "m", "a", "i", "l">>
Q_scope_plus ==
  <<"s", "c", "o", "p", "e", "=", "o", "p", "e", "n", "i", "d", "+", "e",
  "m", "a", "i", "l">>
Q_response_type_code ==
  <<"r", "e", "s", "p", "o", "n", "s", "e", "_", "t", "y", "p", "e", "=",
  "c", "o", "d", "e">>
Q_scope_eq ==
  <<"s", "c", "o", "p", "e", "=">>
Q_percent20 ==
  <<"%", "2", "0">>

\* C5 (as stated): for clientId "abc", redirectUri "https://x/cb" and scopes
\* ["openid","email"] the URL contains client_id=abc, code_challenge_method=S256
\* and scope=openid%20email.
C5_ScopePercent20 ==
  (url # <<>> /\ config = ScenarioConfig) =>
    /\ Contains(url, Q_client_id_abc)
    /\ Contains(url, Q_method_S256)
    /\ Contains(url, Q_scope_percent20)

\* C5 (amended): the URL contains response_type=code, code_challenge_method=S256
\* and the scopes joined by a single space that is encoded as "+", never as %20;
\* for the scenario's configuration it contains client_id=abc and
\* scope=openid+email.
C5_ScopePlusEncoded ==
  url # <<>> =>
    /\ Contains(url, Q_response_type_code)
    /\ Contains(url, Q_method_S256)
    /\ Contains(url, Q_scope_eq \o Join(config.scopes, <<"+">>) \o <<"&">>)
    /\ ~Contains(url, Q_percent20)
    /\ config = ScenarioConfig =>
         (Contains(url, Q_client_id_abc) /\ Contains(url, Q_scope_plus))

\* C5 witness: the scenario's URL has been built.
C5_Witness ==
  /\ config = ScenarioConfig
  /\ url # <<>>
  /\ Contains(url, Q_scope_plus)

\* ------------------------------------------- claims: EmailVerificationWidget

\* C6: a widget whose client-validation request was answered {valid:false} never
\* calls render() in that initialize(), never reaches 'ready' through it, and is
\* in state 'error' when that initialize() has finished.
C6_InvalidClientNeverRenders ==
  lastInit.validation = "invalid" =>
    /\ ~lastInit.rendered
    /\ (net.initPc = "done" /\ ~destroyed) => ew.state = "error"

\* C7: once destroy() has been called, the lifecycle state is 'destroyed' in
\* every later state.
C7_DestroyedIsTerminal == destroyed => ew.state = "destroyed"

\* A status check or a resend request that was in flight when destroy() was
\* called is answered in this step.
StaleRequestAnswered ==
  \/ net.staleInit /\ ~net'.staleInit
  \/ net'.staleStatus < net.staleStatus
  \/ net'.staleResends < net.staleResends

\* C8: the answer to a request that was in flight when destroy() was called is
\* ignored: the step starts no cooldown timer and no auto-hide timeout, calls no
\* host callback and renders nothing.
C8_StaleAnswerIgnored ==
  [][StaleRequestAnswered =>
       /\ ew'.resendTimer = ew.resendTimer
       /\ ew'.cooldownOrphans = ew.cooldownOrphans
       /\ ew'.hideTimeouts = ew.hideTimeouts
       /\ ew'.invoked = {}
       /\ ew'.buttonAttached = ew.buttonAttached]_vars

\* A callback of a timer the instance scheduled runs in this step.
TimerCallbackRuns ==
  \/ \E hasToken \in BOOLEAN : PollTick(hasToken)
  \/ CooldownTick
  \/ HideTimeout

\* C9: destroy() leaves both timer handles null, and once it has been called no
\* timer callback of the instance runs.
C9_DestroyReleasesEveryTimer ==
  [][/\ Destroy => (~ew'.verificationCheckInterval /\ ~ew'.resendTimer)
     /\ destroyed => ~TimerCallbackRuns]_vars

\* startVerificationPolling() is called in this step.
PollingStarted ==
  \/ ew'.verificationCheckInterval /\ ~ew.verificationCheckInterval
  \/ ew'.pollOrphans > ew.pollOrphans

\* C10: the step that makes emailVerified true leaves the polling handle null,
\* and once emailVerified has been true no step starts a polling interval.
C10_PollingNeverRearmed ==
  [][/\ (ew'.emailVerified /\ ~ew.emailVerified) => ~ew'.verificationCheckInterval
     /\ everVerified => ~PollingStarted]_vars

\* A call of handleResendEmail() made while the cooldown of an earlier
\* successful resend is counting down.
ResendAttemptInCooldown ==
  /\ ew.resendCooldown > 0
  /\ \E hasToken \in BOOLEAN : ClickResend(hasToken)

\* C11: a resend attempt made before the cooldown has reached 0 sends no request
\* and leaves the cooldown counter and its countdown timer as they were.
C11_CooldownBlocksResend ==
  [][ResendAttemptInCooldown =>
       /\ net' = net
       /\ ew'.resendCooldown = ew.resendCooldown
       /\ ew'.resendTimer = ew.resendTimer
       /\ ew'.cooldownOrphans = ew.cooldownOrphans
       /\ ew'.state = ew.state]_vars

\* C11 witness: handleResendEmail() has just been called on an enabled button
\* during a cooldown, and returned at its guard.
C11_Witness == lastClick = "cooldown" /\ ew.resendCooldown > 0

\* ------------------------------------------------ claims: step-flow widgets

\* The number of error events the latest step put on the event bus.
ErrorEvents(w) == Cardinality({i \in DOMAIN w.emitted : w.emitted[i] = "error"})

\* The latest step of the widget caught an error and handled it in full: state
\* 'error', one error event, and the host's onError called if it was supplied.
CaughtAndReported(w, o) ==
  /\ w.state = "error"
  /\ ErrorEvents(w) = 1
  /\ o.onError => "onError" \in w.invoked

\* C12: every error caught during initialize() or during an asynchronous action
\* sets the state to 'error', is reported exactly once as an error event on the
\* event bus, and is passed to the host's onError callback when one is supplied.
C12_CaughtErrorsReported ==
  /\ rp.caught => CaughtAndReported(rp, rpOpt)
  /\ ar.caught => CaughtAndReported(ar, arOpt)

\* C13: a local validation failure (empty password, sampled-word mismatch,
\* invalid email, empty or wrong-length phrase, password and confirmation that
\* differ, password failing the policy) is handled on the same step with an
\* inline message: the state is not changed, currentStep and the step on
\* screen are not changed, and no error event is emitted.
C13_LocalValidationStaysOnStep ==
  [][/\ rp'.rejected # "none" =>
          /\ rp'.state = rp.state
          /\ rp'.currentStep = rp.currentStep
          /\ rp'.rendered = rp.rendered
          /\ ErrorEvents(rp') = 0
          /\ (rp'.passwordError # "none" \/ rp'.wordErrors # {})
     /\ ar'.rejected # "none" =>
          /\ ar'.state = ar.state
          /\ ar'.currentStep = ar.currentStep
          /\ ar'.rendered = ar.rendered
          /\ ErrorEvents(ar') = 0
          /\ ar'.inputError # "none"]_vars

\* C13 witness: the new password was refused by the policy on the password step
\* of the account-recovery widget, which is still 'ready' on that step.
C13_Witness ==
  /\ ar.rejected = "policy"
  /\ ar.currentStep = "password"
  /\ ar.state = "ready"
  /\ ar.inputError = "policy"

\* The number of white-space-separated tokens of a text: the positions where a
\* run of characters other than white space begins.
TokenCount(s) ==
  Cardinality({i \in 1 .. Len(s) :
                 s[i] \notin WhiteSpace /\ (i = 1 \/ s[i - 1] \in WhiteSpace)})

\* The token counts of the texts the user may type, as typed and sanitized.
TokenCounts ==
  [text \in PhraseTexts |->
     [typed |-> TokenCount(text), sanitized |-> TokenCount(sanitizeText(text))]]

\* 'Verify Phrase' was clicked with this text and handled locally: no request
\* was sent and a validation message is shown.
RefusedLocally ==
  /\ arNet' = arNet
  /\ ar'.inputError # "none"
  /\ ar'.state = ar.state
  /\ ar'.currentStep = "phrase"

\* C14 as stated: in the phrase step an input that does not consist of exactly
\* 24 white-space-separated words never reaches the network: no verification
\* request is sent and a local validation error is shown.
C14_Not24TokensNeverSent ==
  [][\A text \in PhraseTexts, hasToken \in BOOLEAN :
       (RecoveryClickVerifyPhrase(text, hasToken)
          /\ TokenCounts[text].typed # PhraseWordCount) => RefusedLocally]_vars

\* C14 amended: the words are counted after sanitizeText has removed the markup
\* from the input; a text that then does not hold exactly 24 words never
\* reaches the network.
C14_Not24WordsNeverSent ==
  [][\A text \in PhraseTexts, hasToken \in BOOLEAN :
       (RecoveryClickVerifyPhrase(text, hasToken)
          /\ TokenCounts[text].sanitized # PhraseWordCount) => RefusedLocally]_vars

\* C14 witness: a phrase with a wrong number of words has just been refused on
\* the phrase step, and no verification request is in flight.
C14_Witness ==
  /\ ar.rejected = "phrase-count"
  /\ ar.currentStep = "phrase"
  /\ arNet.verifies = 0

\* Each word the user may type: case-folded and trimmed, and the same after the
\* markup has been removed from it.
Entered ==
  [value \in TypedWords |->
     [folded |-> trim(toLowerCase(value)),
      sanitized |-> trim(toLowerCase(sanitizeText(value)))]]

\* The words of each phrase that may be displayed, case-folded.
DisplayedWords ==
  [phrase \in Phrases |->
     LET words == split(phrase, " ")
     IN  [i \in DOMAIN words |-> toLowerCase(words[i])]]

\* The word of the displayed phrase at a sampled (0-based) index, case-folded.
PhraseWord(index) == DisplayedWords[rp.recoveryPhrase][index + 1]

\* handleVerify() runs on the verify step with these values in the inputs.
VerifyClicked(values, hasToken) ==
  /\ widgetType = "recovery-phrase"
  /\ rp.rendered = "verify"
  /\ handleVerify(values, hasToken)

\* The outcome of handleVerify(): the comparison passes exactly if `matches`,
\* and if it does not pass the step stays verify and no request is sent.
VerifyOutcome(matches) ==
  /\ (rp'.rejected = "none") <=> matches
  /\ ~matches => (rp'.currentStep = "verify" /\ rp'.rendered = "verify"
                    /\ rpNet' = rpNet /\ rp'.state = rp.state)

\* C15 as stated: verification passes iff, for every sampled index, the entered
\* word after trimming and case-folding equals the word at that index of the
\* displayed phrase; otherwise currentStep stays verify and no request is sent.
C15_PassesIffFoldedWordsEqual ==
  [][rp.rendered = "verify" =>
       \A values \in [1 .. Len(rp.verificationIndices) -> TypedWords],
          hasToken \in BOOLEAN :
         VerifyClicked(values, hasToken) =>
           VerifyOutcome(\A i \in 1 .. Len(rp.verificationIndices) :
                           Entered[values[i]].folded
                             = PhraseWord(rp.verificationIndices[i]))]_vars

\* C15 amended: the entered word is compared after its markup has been removed,
\* too.
C15_PassesIffSanitizedWordsEqual ==
  [][rp.rendered = "verify" =>
       \A values \in [1 .. Len(rp.verificationIndices) -> TypedWords],
          hasToken \in BOOLEAN :
         VerifyClicked(values, hasToken) =>
           VerifyOutcome(\A i \in 1 .. Len(rp.verificationIndices) :
                           Entered[values[i]].sanitized
                             = PhraseWord(rp.verificationIndices[i]))]_vars

\* C15 witness: the sampled words have just passed the comparison on the verify
\* step and the verification request is in flight.
C15_Witness ==
  /\ rp.rendered = "verify"
  /\ rp.state = "loading"
  /\ rpNet.verifies > 0
  /\ Len(rp.verificationIndices) > 1

\* ------------------------------------------------------- claims: lifecycle

\* C16: the lifecycle state only moves forward: no step enters 'initializing'
\* again, and no step takes a widget that has reached 'success' back to
\* 'ready', 'loading' or 'error'.
C16_LifecycleMovesForward ==
  [][/\ ew'.state = "initializing" => ew.state = "initializing"
     /\ ew.state = "success" => ew'.state \notin {"ready", "loading", "error"}]_vars

\* initialize() sends its requests in order: the call itself sends the
\* client-validation request and neither renders nor changes the state; the
\* status request is sent only when the validation has been answered; nothing
\* is rendered before the validation has been answered.
ValidationComesFirst ==
  /\ Initialize =>
        /\ net'.initPc = "validating"
        /\ net'.statusChecks = net.statusChecks
        /\ ew'.state = ew.state
        /\ ew'.buttonExists = ew.buttonExists
  /\ (net'.initPc = "checking" /\ net.initPc # "checking") =>
        /\ net.initPc = "validating"
        /\ lastInit'.validation \notin {"none", "forbidden", "unknown", "reject"}
  /\ (lastInit'.rendered /\ ~lastInit.rendered) =>
        /\ net.initPc \in {"validating", "checking"}
        /\ lastInit'.validation \notin {"none", "forbidden", "unknown", "reject"}

\* initialize() returns in this step.
InitializeReturns == net'.initPc = "done" /\ net.initPc # "done"

\* initialize() caught a throw: state 'error' and one error event.
InitializeFailed ==
  /\ lastInit'.validation \in {"forbidden", "unknown", "reject"}
  /\ ew'.state = "error"
  /\ ErrorEvents(ew') = 1
  /\ ~lastInit'.rendered

\* initialize() ran to its end: rendered, state 'ready', no error event.
InitializeReady ==
  /\ lastInit'.validation \notin {"none", "forbidden", "unknown", "reject"}
  /\ ew'.state = "ready"
  /\ ErrorEvents(ew') = 0
  /\ lastInit'.rendered

\* initialize() found the email verified already: state 'success', no render.
InitializeAlreadyVerified ==
  /\ lastInit'.validation \notin {"none", "forbidden", "unknown", "reject"}
  /\ ew'.emailVerified
  /\ ew'.state = "success"
  /\ ErrorEvents(ew') = 0
  /\ ~lastInit'.rendered

EventCount(w, eventName) ==
  Cardinality({i \in DOMAIN w.emitted : w.emitted[i] = eventName})

\* The step left the visibility flag, the lifecycle state and the rendered
\* content (the step on screen and its inline messages) of the recovery-phrase
\* widget as they were, and emitted no event.
PhraseUntouched ==
  /\ rp'.isVisible = rp.isVisible
  /\ rp'.state = rp.state
  /\ rp'.rendered = rp.rendered
  /\ rp'.passwordError = rp.passwordError
  /\ rp'.wordErrors = rp.wordErrors
  /\ rp'.emitted = <<>>

\* C18: show() on a visible widget and hide() on a hidden widget are no-ops: no
\* event, and visibility flag, lifecycle state and rendered content unchanged;
\* in the other visibility they flip the flag and emit exactly one show
\* (respectively hide) event.
C18_ShowHideIdempotent ==
  [][/\ (PhraseShow /\ rp.isVisible) => PhraseUntouched
     /\ (PhraseHide /\ ~rp.isVisible) => PhraseUntouched
     /\ (PhraseShow /\ ~rp.isVisible) =>
          (rp'.isVisible /\ EventCount(rp', "show") = 1)
     /\ (PhraseHide /\ rp.isVisible) =>
          (~rp'.isVisible /\ EventCount(rp', "hide") = 1)]_vars

\* ---------------------------------------------------------- claims: render()

\* C19: render() is idempotent: calling it twice in a row leaves the root as one
\* call leaves it, with no duplicated content, no further style element and no
\* further button with its listener.
C19_RenderIdempotent ==
  [][(DomRender /\ dom.lastCall = "render") =>
       (dom'.root = dom.root /\ dom'.resendButton = dom.resendButton)]_vars

\* ------------------------------------------------------- claims: apiRequest()

\* C20: apiRequest fails with NotAuthenticated, without a request sent, exactly
\* when no token is available; with ApiError carrying the status exactly when a
\* response with a status outside 2xx was received; and with NetworkError
\* exactly when no response was received at all (a call that never had a token
\* to send counts here as NotAuthenticated only).
C20_ErrorsClassified ==
  api.pc = "done" =>
    /\ (api.outcome = "NOT_AUTHENTICATED") <=> (api.accessor \in {"absent", "empty"})
    /\ (api.outcome = "NOT_AUTHENTICATED") => ~api.sent
    /\ (api.outcome = "API_ERROR") <=> (api.status # 0 /\ ~IsOk(api.status))
    /\ (api.outcome = "API_ERROR") => (api.errorStatus = api.status)
    /\ (api.outcome = "NETWORK_ERROR")
         <=> (api.accessor \notin {"absent", "empty"} /\ api.status = 0)

\* ------------------------------------------------- claims: persisted session

\* The step in which handleCallback() returns the user: the user-info answer
\* arrived and was accepted.
LoginCompleted == cb.pc = "fetching" /\ cb'.pc = "done" /\ cb'.outcome = "ok"

\* C21: after a successful login the stored access token, refresh token and user
\* record all come from that login's responses: the access token and the
\* refresh token are the token response's (no refresh token stored when it
\* carried none), and the user record is the one held in memory.
C21_SessionOverwritten ==
  [][LoginCompleted =>
       /\ lsToken' = cb.token /\ accessToken' = cb.token
       /\ lsUser' = user' /\ user' # 0
       /\ lsRefresh' = cb.refresh]_vars

\* Nothing of a session is in durable storage.
NothingStored == lsToken = 0 /\ lsRefresh = 0 /\ lsUser = 0

\* C22: when logout() returns, isAuthenticated() is false, the in-memory token
\* and user are null and none of the access token, the refresh token and the
\* user record is in durable storage; an engine constructed over such a storage
\* restores no session.
C22_LogoutClearsSession ==
  [][/\ Logout => (/\ ~isAuthenticated'
                   /\ accessToken' = 0 /\ user' = 0
                   /\ NothingStored')
     /\ (Construct /\ NothingStored) =>
          (~isAuthenticated' /\ accessToken' = 0 /\ user' = 0 /\ NothingStored')
    ]_vars

\* A login completed with a refresh token, and the session it stored is gone.
C22_Witness ==
  /\ cb.pc = "done" /\ cb.outcome = "ok" /\ cb.refresh # 0
  /\ NothingStored /\ ~isAuthenticated

\* ------------------------------------------------ claims: security dashboard

\* C23: for every combination of the status flags (email verified, phrase
\* active, phrase verified), and with no status fetched, the security score is
\* an integer between 0 and 100; so is the score of the status the widget holds
\* and the score the dashboard displays.
C23_ScoreBounded ==
  /\ calculateSecurityScore(<<>>) \in 0 .. 100
  /\ \A s \in StatusFlags : calculateSecurityScore(<<s>>) \in 0 .. 100
  /\ calculateSecurityScore(sd.securityStatus) \in 0 .. 100
  /\ sd.rendered.score \in 0 .. 100
  /\ sd.rendered.kind = "dashboard" =>
       sd.rendered.score = calculateSecurityScore(sd.rendered.status)

\* The dashboard displays the score of a status with every flag set.
C23_Witness ==
  /\ sd.rendered.kind = "dashboard"
  /\ sd.rendered.status[1] =
       [active |-> TRUE, verified |-> TRUE, emailVerified |-> TRUE]
  /\ sd.rendered.score = 100

\* A refresh() is waiting for fetchSecurityStatus().
RefreshInFlight == \E i \in 1 .. Len(sd.calls) : sd.calls[i].by = "refresh"

\* The latest step ended a refresh(): its fetchSecurityStatus() returned or
\* threw.
RefreshEnded == sd.finished.by = "refresh"

\* The status the latest step fetched is made of the answers of one refresh():
\* the flags its first request returned and the one its second request returned.
FetchedByOneRefresh ==
  \E i \in 1 .. Len(sd.calls) :
    /\ sd.calls[i].by = "refresh" /\ sd.calls[i].pc = "email"
    /\ sd'.calls = completeCall(sd.calls, i)
    /\ sd'.finished.status[1].active = sd.calls[i].active
    /\ sd'.finished.status[1].verified = sd.calls[i].verified

\* C24 (steps): refresh() sets the state to 'loading' and sends the first of its
\* two status requests; the step in which both have succeeded sets the state to
\* 'ready' with the dashboard rendered from the status just fetched; a step in
\* which one of them fails sets the state to 'error', emits the error event and
\* calls onError where supplied.
C24_RefreshSteps ==
  [][/\ DashRefresh =>
          /\ sd'.state = "loading"
          /\ Len(sd'.calls) = Len(sd.calls) + 1
          /\ sd'.calls[Len(sd'.calls)].by = "refresh"
          /\ sd'.calls[Len(sd'.calls)].pc = "phrase"
     /\ (RefreshEnded' /\ sd'.finished.ok) =>
          /\ sd'.state = "ready"
          /\ FetchedByOneRefresh
          /\ sd'.securityStatus = sd'.finished.status
          /\ sd'.rendered = [kind |-> "dashboard",
                             status |-> sd'.finished.status,
                             score |-> calculateSecurityScore(sd'.finished.status)]
     /\ (RefreshEnded' /\ ~sd'.finished.ok) =>
          /\ sd'.state = "error"
          /\ \E k \in 1 .. Len(sd'.emitted) : sd'.emitted[k] = "error"
          /\ sd.onError => "onError" \in sd'.invoked]_vars

\* C24: refresh() re-fetches both statuses and re-renders: the state becomes
\* 'loading', then 'ready' with the newly fetched status rendered when both
\* requests succeed, or 'error' with the error reported when one fails; every
\* refresh() ends one way or the other once its requests are answered, and after
\* a failure refresh() can be called again.
C24_RefreshRefetchesAndRenders ==
  /\ C24_RefreshSteps
  /\ [](RefreshEnded => ENABLED DashRefresh)
  /\ (RefreshInFlight ~> RefreshEnded)

\* A refresh() has ended in 'ready' with the status it fetched rendered.
C24_Witness ==
  /\ RefreshEnded /\ sd.finished.ok
  /\ sd.state = "ready"
  /\ sd.rendered.status = sd.finished.status

\* ----------------------------------- claims: email verification, timers

\* The status check of initialize() has just reported a verified email.
InitialCheckVerified ==
  net.initPc = "checking" /\ net'.initPc = "done" /\ ew'.emailVerified

\* C25: when the one status check of initialize() reports the email as already
\* verified, initialize() ends in 'success' without a render() (no button is
\* created or attached), without a polling interval started and without the
\* widget becoming visible.
C25_AlreadyVerifiedShortCircuits ==
  [][InitialCheckVerified =>
       /\ ew'.state = "success"
       /\ ~lastInit'.rendered
       /\ ew'.buttonExists = ew.buttonExists
       /\ ew'.buttonAttached = ew.buttonAttached
       /\ ~ew'.verificationCheckInterval
       /\ ew'.pollOrphans = ew.pollOrphans
       /\ ew'.isVisible = ew.isVisible
       /\ EventCount(ew', "show") = 0]_vars

\* initialize() has ended on a verified email with the widget still hidden, no
\* button and no polling interval.
C25_Witness ==
  /\ net.initPc = "done" /\ lastInit.validation = "valid"
  /\ ew.emailVerified /\ ew.state = "success"
  /\ ~ew.isVisible /\ ~ew.buttonExists /\ ~ew.verificationCheckInterval
  /\ "onVerified" \in ew.invoked

\* A second passes.
SecondPasses == \E hasToken \in BOOLEAN : Tick(hasToken)

\* A status request made by the polling interval is answered "verified".
ReportedVerified == PollStatusAnswer("ok", TRUE)

\* The latest step handled a "verified" answer.
JustVerified == ew.emailVerified /\ "onVerified" \in ew.invoked

\* C26 (steps): while the polling interval exists, a status check is made in the
\* fifth second after the interval was started or last fired, and in no other;
\* the step in which a check is answered "verified" sets the state to 'success',
\* calls onVerified, clears the polling interval and schedules the auto-hide
\* timeout, which is pending for less than HideDelaySeconds.
C26_PollingSteps ==
  [][/\ SecondPasses =>
          /\ clock'.polled <=> (/\ ew.verificationCheckInterval
                                /\ clock.poll = PollIntervalSeconds - 1)
          /\ clock'.polled =>
               (\/ net'.statusChecks = net.statusChecks + 1
                \/ ~ew'.emailVerified)
          /\ clock'.poll < PollIntervalSeconds
          /\ \A i \in 1 .. Len(clock'.hide) : clock'.hide[i] < HideDelaySeconds
     /\ ReportedVerified =>
          /\ ew'.state = "success"
          /\ "onVerified" \in ew'.invoked
          /\ ~ew'.verificationCheckInterval
          /\ ew'.hideTimeouts = ew.hideTimeouts + 1]_vars

C27_CooldownSteps ==
  [][/\ ResendAnswer("ok") =>
          (ew'.resendCooldown = CooldownSeconds /\ ew'.resendTimer)
     /\ (SecondPasses /\ ew.resendTimer) =>
          /\ ew'.resendCooldown = ew.resendCooldown - 1
          /\ ew'.resendCooldown = 0 =>
               /\ ~ew'.resendTimer
               /\ ~InCooldown(ew')
               /\ ew'.buttonExists => ~ew'.buttonDisabled
     /\ (ew'.resendCooldown # ew.resendCooldown) =>
          (SecondPasses \/ ResendAnswer("ok") \/ Destroy)
     /\ \A hasToken \in BOOLEAN :
          (ClickResend(hasToken) /\ ew.resendCooldown = 0 /\ ~ew.buttonDisabled)
            => lastClick' \in {"sent", "failed"}]_vars

Failures == ResponseKinds \ {"ok"}

\* C28: the account-recovery widget's currentStep becomes 'password' only in the
\* step in which the server accepts the phrase, and 'success' only in the step
\* in which it accepts the reset; a failed request leaves currentStep and the
\* rendered step as they were, with the 'Verify Phrase' button of a rendered
\* phrase step enabled again, so that the form can be submitted again.
C28_StepsAdvanceOnServerAcceptance ==
  [][/\ (ar'.currentStep = "password" /\ ar.currentStep # "password")
          => RecoveryVerifyAnswer("ok")
     /\ (ar'.currentStep = "success" /\ ar.currentStep # "success")
          => RecoveryResetAnswer("ok")
     /\ \A kind \in Failures :
          /\ RecoveryVerifyAnswer(kind) =>
               /\ ar'.currentStep = ar.currentStep
               /\ ar'.rendered = ar.rendered
               /\ ar.rendered = "phrase" => ~ar'.verifyDisabled
          /\ RecoveryResetAnswer(kind) =>
               /\ ar'.currentStep = ar.currentStep
               /\ ar'.rendered = ar.rendered
               /\ ar'.verifyDisabled = ar.verifyDisabled]_vars

\* The server accepted the phrase and then rejected the reset: the widget is
\* still on the password step, with nothing in flight.
C28_Witness ==
  /\ widgetType = "account-recovery"
  /\ ar.currentStep = "password" /\ ar.rendered = "password"
  /\ ar.state = "error" /\ ar.caught
  /\ arNet.resets = 0 /\ arNet.verifies = 0

\* 'Reset Password' was clicked with these values typed and its request was
\* sent.
ResetRequestSent(newValue, confirmValue) ==
  /\ RecoveryClickReset(newValue, confirmValue, TRUE)
  /\ arNet'.resets = arNet.resets + 1

\* C29: the password-reset request is sent only when the new password typed
\* equals the confirmation typed and satisfies the policy (at least 8
\* characters, an uppercase letter, a lowercase letter and a digit); otherwise
\* no request is sent and currentStep stays 'password'.
C29_ResetSentOnlyForMatchingValidPassword ==
  [][\A newValue \in PasswordTexts, confirmValue \in PasswordTexts :
       /\ ResetRequestSent(newValue, confirmValue) =>
            (newValue = confirmValue /\ validatePassword(newValue))
       /\ \A hasToken \in BOOLEAN :
            (/\ RecoveryClickReset(newValue, confirmValue, hasToken)
             /\ ~(newValue = confirmValue /\ validatePassword(newValue)))
              => (/\ arNet'.resets = arNet.resets
                  /\ ar'.currentStep = "password")]_vars

C31_FirstFailingCheckDecides ==
  cb.pc # "idle" =>
    /\ cb.error # 0 =>
         /\ cb.pc = "done" /\ cb.outcome = "OAuthDenied" /\ cb.sent = 0
         /\ cb.message = IF cb.desc # 0 THEN "error_description" ELSE "error"
    /\ (cb.error = 0 /\ cb.code = 0) =>
         /\ cb.pc = "done" /\ cb.outcome = "MissingAuthorizationCode"
         /\ cb.message = "No authorization code received" /\ cb.sent = 0
    /\ cb.outcome = "CSRFValidationFailed" =>
         (cb.error = 0 /\ cb.code # 0 /\ CallbackStateMismatch /\ cb.sent = 0)
    /\ cb.outcome = "MissingPKCEVerifier" =>
         (cb.error = 0 /\ cb.code # 0 /\ ~CallbackStateMismatch /\ cb.sent = 0)

\* A callback with an error parameter and a description, no code and a state
\* other than the stored one failed with OAuthDenied.
C31_Witness ==
  /\ cb.pc = "done" /\ cb.error # 0 /\ cb.desc # 0 /\ cb.code = 0
  /\ cb.storedAtStart # 0 /\ cb.state # 0 /\ cb.state # cb.storedAtStart
  /\ cb.outcome = "OAuthDenied" /\ cb.message = "error_description"

\* ------------------------------------------------ claims: concurrent logins

\* The states the login attempts made so far returned.
Issued == 1 .. nextId

\* C32: login attempts started before any callback arrived stay isolated: the
\* first callback to arrive, carrying a code and the state of any of them,
\* passes validation and its token request carries the verifier drawn for that
\* attempt (FlowstaAuth); the first validateState call with the state of any of
\* them returns true, and retrieveCodeVerifier returns that attempt's verifier
\* (login-button utilities).
C32_ConcurrentAttemptsIsolated ==
  [][\A s \in Issued :
       /\ (cb.pc = "idle" /\ HandleCallbackStart(0, 0, 1, s)) =>
            (cb'.pc = "exchanging" /\ cb'.verifier = generateRandomString(s - 1))
       /\ (~vs.called /\ validateState(s)) => vs'.ret = 1
       /\ (~rv.called /\ retrieveCodeVerifier(s)) => rv'.ret = VerifierOf(s)]_vars

\* ------------------------------------------- claims: recovery without login

\* C33: an account-recovery widget constructed without a token accessor can
\* complete the flow: 'Verify Phrase' with a phrase of 24 words sends the
\* verification request and 'Reset Password' with a matching valid password
\* sends the reset request, so that the server's acceptance can take
\* currentStep to 'password' and then to 'success'.
C33_RecoveryWithoutTokenAccessor ==
  [][~arOpt.getAuthToken =>
       /\ \A text \in PhraseTexts :
            (/\ Len(phraseInputs[text].words) = PhraseWordCount
             /\ RecoveryClickVerifyPhrase(text, FALSE))
              => (arNet'.verifies = arNet.verifies + 1 /\ ar'.state = "loading")
       /\ \A value \in PasswordTexts :
            (/\ validatePassword(getInputValue(value))
             /\ RecoveryClickReset(value, value, FALSE))
              => (arNet'.resets = arNet.resets + 1 /\ ar'.state = "loading")]_vars

\* ------------------------------------------------ claims: email callbacks

\* C34: the onVerified callback is called at most once per instance: no step
\* calls it once the email has been seen verified, even when status checks
\* overlap or a check in flight is answered after the verification was handled.
C34_OnVerifiedAtMostOnce ==
  [][("onVerified" \in ew'.invoked) => ~everVerified]_vars

\* ------------------------------------------------ claims: email timers

\* C35: every running timer of the email widget is the one its handle
\* refers to: no polling interval and no cooldown timer keeps running after
\* its handle has been overwritten, so at most one of each is active.
C35_NoOrphanedTimers ==
  /\ ew.pollOrphans = 0
  /\ ew.cooldownOrphans = 0

\* ------------------------------------------------ claims: dashboard refreshes

\* The i-th call of fetchSecurityStatus() in progress completes in this step,
\* with a status or with a failure.
FetchCompletes(i) ==
  \/ \E active \in BOOLEAN, verified \in BOOLEAN :
       DashPhraseStatusAnswer(i, FALSE, active, verified)
  \/ \E ok \in BOOLEAN, emailVerified \in BOOLEAN :
       DashEmailStatusAnswer(i, ok, emailVerified)

\* C36: when a refresh completes after a refresh started later has already
\* completed, the status, the rendered dashboard and the lifecycle state stay
\* those the later refresh left: the response that arrives last does not win.
C36_LatestStartedRefreshWins ==
  [][\A i \in 1 .. MaxFetches :
       (/\ i <= Len(sd.calls)
        /\ sd.calls[i].by = "refresh"
        /\ sd.calls[i].superseded
        /\ FetchCompletes(i))
         => /\ sd'.securityStatus = sd.securityStatus
            /\ sd'.rendered = sd.rendered
            /\ sd'.state = sd.state]_vars

\* ------------------------------------------------ claims: state validation

\* C37: a validation of a state that does not match the stored one fails and
\* leaves the stored state in place, so that the genuine callback still
\* validates afterwards: validateState() of the login-button utilities returns
\* false and removes nothing, and a handleCallback() of FlowstaAuth rejected for
\* its state leaves the stored state as it was.
C37_MismatchLeavesStoredState ==
  [][/\ \A returnedState \in CallbackStates :
          (/\ obState # 0
           /\ returnedState # obState
           /\ validateState(returnedState))
            => (vs'.ret = 0 /\ obState' = obState)
     /\ \A error \in {0, 1}, desc \in {0, 1}, code \in {0, 1},
           state \in CallbackStates :
          (/\ ssState # 0
           /\ state # ssState
           /\ HandleCallbackStart(error, desc, code, state))
            => (cb'.pc = "done" /\ ssState' = ssState)]_vars

\* ------------------------------------------------ claims: the loading state

\* The widget the host embeds is in the state 'loading'.
Loading ==
  \/ widgetType = "email-verification" /\ ew.state = "loading"
  \/ widgetType = "recovery-phrase" /\ rp.state = "loading"
  \/ widgetType = "account-recovery" /\ ar.state = "loading"
  \/ widgetType = "security-dashboard" /\ sd.state = "loading"

\* A request sent by a user action of the embedded widget is in flight.
UserRequestInFlight ==
  \/ widgetType = "email-verification" /\ net.resends > 0
  \/ widgetType = "recovery-phrase" /\ rpNet.generates + rpNet.verifies > 0
  \/ widgetType = "account-recovery" /\ arNet.verifies + arNet.resets > 0
  \/ widgetType = "security-dashboard"
       /\ \E i \in 1 .. Len(sd.calls) : sd.calls[i].by = "refresh"

\* C38 (steps): the step in which the request of a user action is answered,
\* with no other one of them left in flight, leaves the state 'ready',
\* 'success' or 'error'.
C38_AnswerLeavesLoading ==
  [][(UserRequestInFlight /\ ~UserRequestInFlight')
       => /\ widgetType = "email-verification"
              => ew'.state \in {"ready", "success", "error"}
          /\ widgetType = "recovery-phrase"
              => rp'.state \in {"ready", "success", "error"}
          /\ widgetType = "account-recovery"
              => ar'.state \in {"ready", "success", "error"}
          /\ widgetType = "security-dashboard"
              => sd'.state \in {"ready", "success", "error"}]_vars

NothingStoredByStep ==
  /\ obState' = obState
  /\ obVerifiers' = obVerifiers
  /\ nextId' = nextId

\* C39: the login button processes one click at a time.  A click on a button
\* that is disabled, or whose earlier click is still building the URL, calls
\* neither onClick nor buildAuthorizationUrl and stores no state or verifier;
\* a click on an enabled button at rest is processed; never are two calls of
\* buildAuthorizationUrl in progress; and when the building fails, onError
\* (where supplied) is called exactly once, with 'authorization_failed', and
\* the button accepts clicks again.
C39_OneClickAtATime ==
  /\ [][/\ \A onClickThrows \in BOOLEAN :
             (ButtonClick(onClickThrows) /\ (lb.disabled \/ lb.building > 0))
               => /\ lb'.invoked = <<>>
                  /\ lb'.building = lb.building
                  /\ NothingStoredByStep
        /\ (ButtonClick(FALSE) /\ ~lb.disabled /\ lb.building = 0 /\ lb.href = 0)
               => /\ lb'.building = 1
                  /\ lb'.invoked = (IF lb.onClick THEN <<"onClick">> ELSE <<>>)
                                     \o <<"buildAuthorizationUrl">>
        /\ ButtonBuildAnswer(FALSE)
               => /\ lb'.invoked = IF lb.onError THEN <<"onError">> ELSE <<>>
                  /\ lb.onError => lb'.reported = "authorization_failed"
                  /\ NothingStoredByStep
                  /\ ~lb'.isLoading
                  /\ ~clickIgnored(lb') = ~lb.disabled]_vars
  /\ [](lb.building <= 1)

\* C39 witness: the building of the URL has just failed on an enabled button:
\* onError was called with 'authorization_failed' and the button is at rest.
C39_Witness ==
  /\ lb.invoked = <<"onError">>
  /\ lb.reported = "authorization_failed"
  /\ lb.building = 0
  /\ ~lb.isLoading
  /\ ~lb.disabled

\* ------------------------------------------------ claims: the theme style

\* The number of nodes of one kind among the children of a root.
NodeCount(root, kind) ==
  Cardinality({i \in DOMAIN root : root[i] = kind})

\* C40: after render() of a step-flow widget its root holds the theme style
\* element exactly once, and the content of the current step alongside it.
C40_StepRenderKeepsTheme ==
  (/\ dom.widget \in {"recovery-phrase", "account-recovery"}
   /\ dom.lastCall = "render")
    => /\ NodeCount(dom.root, "theme") = 1
       /\ NodeCount(dom.root, dom.step) = 1

====
